---- MODULE Spec2Model ----
(***************************************************************************)
(* A model of the universal-decorators library (index.js): the bounded LRU *)
(* cache UniversalLRU, the key builder fastKey, and the decorators         *)
(* super_cache, rate_limit, super_matrix, validate, repeat, async_retry,   *)
(* time_limit, throttle, debounce, protect and metrics, and the factory    *)
(* createUniversalDecorator, each with a specification of its own over the *)
(* same variables.                                                         *)
(*                                                                         *)
(* JavaScript values are records [t |-> <type tag>, s |-> <payload>]; for  *)
(* a number the payload is its decimal string form, as String(n) gives it. *)
(* A Map is the sequence of its entries [k, v] in insertion order, which   *)
(* is the order Map.prototype.keys() iterates in.                          *)
(***************************************************************************)
EXTENDS Integers, Sequences, FiniteSets, TLC

VARIABLES
    lru,        \* the UniversalLRU instance: [maxSize, cache, hits, misses]
    touched,    \* observer: the keys in the order of their last touch, oldest first
    nHit,       \* observer: gets on a present key since construction / the last clear
    nMiss,      \* observer: gets on an absent key since construction / the last clear
    last,       \* observer: the last UniversalLRU operation, with the state before it
    cfg,        \* the arguments super_cache was given: [type, maxsize]
    base,       \* the wrapped base function: argument list -> outcome
    history,    \* observer: the calls made to the wrapped function, oldest first
    fkArgs,     \* the argument list handed to fastKey
    fkKey,      \* the key fastKey returned
    fkPc,       \* "call" before fastKey ran, "done" after
    now,        \* Date.now()
    rlCfg,      \* the options rate_limit was given: [requests, window, strategy, per]
    calls,      \* rate_limit's Map `calls`: partition key -> callData
    rlLog,      \* observer: the calls made to the rate-limited function, oldest first
    timers,     \* the pending setTimeout callbacks of strategy wait (indices of rlLog)
    fired,      \* observer: the deferred invocations made so far, oldest first
    mxOpts,     \* the options super_matrix was given: policy key -> config value
    mxState,    \* the state of the throttle, log and metrics layers
    mxLog,      \* observer: the calls made to the super_matrix function
    vCfg,       \* the options validate was given: [params, return]
    vLast,      \* observer: the last call made to the validated function
    rtCfg,      \* the decorator under retry and its arguments: [kind, times, retryOn, limit]
    rt,         \* the call in progress of the repeat / async_retry / time_limit function
    dtCfg,      \* the decorator under delay and its argument: [kind, ms]
    dtState,    \* the WeakMap of debounce / throttle: receiver -> timeout or last call time
    dtLog,      \* observer: the calls made to the debounced / throttled function
    ptCfg,      \* the arguments protect was given: [level, silent]
    pt,         \* observer: the last call made to the protected function
    fcIn,       \* what a decorator of the factory is applied to: [target, propertyKey, descriptor]
    fcOut,      \* what the application returned
    mtCfg,      \* the options metrics was given: [track]
    mt,         \* metricsData of the metrics decorator, and the calls made so far
    sh          \* two functions wrapped by super_cache: their caches and the calls made

vars == <<lru, touched, nHit, nMiss, last, cfg, base, history, fkArgs, fkKey, fkPc,
          now, rlCfg, calls, rlLog, timers, fired, mxOpts, mxState, mxLog,
          vCfg, vLast, rtCfg, rt, dtCfg, dtState, dtLog,
          ptCfg, pt, fcIn, fcOut, mtCfg, mt, sh>>
lruVars == <<lru, touched, nHit, nMiss, last>>
cacheVars == <<cfg, base, history>>
keyVars == <<fkArgs, fkKey, fkPc>>
rateVars == <<now, rlCfg, calls, rlLog, timers, fired>>
matrixVars == <<mxOpts, mxState, mxLog>>
validateVars == <<vCfg, vLast>>
retryVars == <<rtCfg, rt>>
delayVars == <<dtCfg, dtState, dtLog>>
protectVars == <<ptCfg, pt>>
factoryVars == <<fcIn, fcOut>>
metricsVars == <<mtCfg, mt>>
moreVars == <<protectVars, factoryVars, metricsVars, sh>>
wrapVars == <<validateVars, retryVars, delayVars, moreVars>>

(***************************************************************************)
(* Bounds of the model.                                                    *)
(***************************************************************************)
MaxCap == 2
MaxHits == 7
MaxMisses == 9
MaxCalls == 4
MaxArgs == 3
MaxRequests == 2
MaxRlCalls == 4
MaxTicks == 3
MaxMxCalls == 2
MaxFails == 1
MaxParams == 2
MaxTimes == 3
MaxDelayCalls == 3
MaxMetricOps == 4
MaxSharedCalls == 3

(***************************************************************************)
(* JavaScript values.                                                      *)
(***************************************************************************)
Undefined == [t |-> "undefined", s |-> ""]
Null == [t |-> "null", s |-> ""]
Num(d) == [t |-> "number", s |-> d]
Str(d) == [t |-> "string", s |-> d]
Obj == [t |-> "object", s |-> "[object Object]"]

\* String(v)
String(v) ==
    CASE v.t = "undefined" -> "undefined"
      [] v.t = "null" -> "null"
      [] OTHER -> v.s

\* The string an element contributes to Array.prototype.join: null and
\* undefined contribute the empty string, every other element String(element).
JoinElement(v) ==
    IF v.t \in {"undefined", "null"} THEN "" ELSE String(v)

\* a + b where one operand is a string: the concatenation of the operands
\* string forms (for undefined, null, numbers, strings and plain objects
\* ToPrimitive followed by ToString is String).
Plus(a, b) == Str(String(a) \o String(b))

RECURSIVE Join(_, _)
Join(list, sep) ==
    IF Len(list) = 0 THEN ""
    ELSE IF Len(list) = 1 THEN JoinElement(list[1])
    ELSE JoinElement(list[1]) \o sep \o Join(Tail(list), sep)

\* An `args` value: an array of values, or no array at all (undefined, null).
ArgsArray(list) == [given |-> TRUE, list |-> list]
NoArgs == [given |-> FALSE, list |-> <<>>]

\* fastKey(args)
fastKey(args) ==
    IF ~args.given \/ Len(args.list) = 0 THEN ""
    ELSE IF Len(args.list) = 1 THEN String(args.list[1])
    ELSE IF Len(args.list) = 2
         THEN Plus(Plus(args.list[1], Str("|")), args.list[2]).s
    ELSE Join(args.list, "|")

(***************************************************************************)
(* Map: has, get, delete, set, keys().next().value, size, clear.           *)
(***************************************************************************)
NoKey == "<undefined>"   \* stands for the value undefined where a key is expected

MapHas(m, key) == \E i \in 1..Len(m) : m[i].k = key

MapGet(m, key) ==
    IF MapHas(m, key)
    THEN m[CHOOSE i \in 1..Len(m) : m[i].k = key].v
    ELSE Undefined

MapDelete(m, key) == SelectSeq(m, LAMBDA e : e.k # key)

\* Map.set keeps the position of a key already present and appends a new key.
MapSet(m, key, value) ==
    IF MapHas(m, key)
    THEN [i \in 1..Len(m) |-> IF m[i].k = key THEN [k |-> key, v |-> value] ELSE m[i]]
    ELSE Append(m, [k |-> key, v |-> value])

MapFirstKey(m) == IF Len(m) = 0 THEN NoKey ELSE m[1].k

MapKeys(m) == {m[i].k : i \in 1..Len(m)}

(***************************************************************************)
(* class UniversalLRU                                                      *)
(***************************************************************************)
DefaultMaxSize == 128

UniversalLRU(maxSize) ==
    [maxSize |-> maxSize, cache |-> <<>>, hits |-> 0, misses |-> 0]

\* Mutant of LruGet: a hit returns the value without re-inserting the key.
LruGetNoTouch(l, key) ==
    IF MapHas(l.cache, key)
    THEN [lru |-> [l EXCEPT !.hits = l.hits + 1], ret |-> MapGet(l.cache, key)]
    ELSE [lru |-> [l EXCEPT !.misses = l.misses + 1], ret |-> Undefined]

\* Mutant of LruGet: every get counts as a hit, a miss as a miss too.
LruGetCountsEveryGet(l, key) ==
    IF MapHas(l.cache, key)
    THEN LET value == MapGet(l.cache, key)
         IN [lru |-> [l EXCEPT !.cache = MapSet(MapDelete(l.cache, key), key, value),
                               !.hits = l.hits + 1],
             ret |-> value]
    ELSE [lru |-> [l EXCEPT !.hits = l.hits + 1, !.misses = l.misses + 1],
          ret |-> Undefined]

\* get(key): the instance after the call and the value returned.
LruGet(l, key) ==
    IF MapHas(l.cache, key)
    THEN LET value == MapGet(l.cache, key)
         IN [lru |-> [l EXCEPT !.cache = MapSet(MapDelete(l.cache, key), key, value),
                               !.hits = l.hits + 1],
             ret |-> value]
    ELSE [lru |-> [l EXCEPT !.misses = l.misses + 1], ret |-> Undefined]

\* Mutant of LruSetEvict: evicts only once the size exceeds maxSize.
LruSetEvictOffByOne(l, key) ==
    IF MapHas(l.cache, key) THEN MapDelete(l.cache, key)
    ELSE IF Len(l.cache) > l.maxSize THEN MapDelete(l.cache, MapFirstKey(l.cache))
    ELSE l.cache

\* Mutant of LruSetEvict: tests the size before it tests the key.
LruSetEvictSizeFirst(l, key) ==
    IF Len(l.cache) >= l.maxSize THEN MapDelete(l.cache, MapFirstKey(l.cache))
    ELSE IF MapHas(l.cache, key) THEN MapDelete(l.cache, key)
    ELSE l.cache

\* The branch of set that makes room: delete the key itself when present,
\* else the first key of the map when the size has reached maxSize.
LruSetEvict(l, key) ==
    IF MapHas(l.cache, key) THEN MapDelete(l.cache, key)
    ELSE IF Len(l.cache) >= l.maxSize THEN MapDelete(l.cache, MapFirstKey(l.cache))
    ELSE l.cache

LruSet(l, key, value) ==
    [l EXCEPT !.cache = MapSet(LruSetEvict(l, key), key, value)]

\* Mutant of ToFixed1: the tenths are cut off, not rounded.
ToFixed1Truncating(hits, total) == (1000 * hits) \div total

\* (x).toFixed(1) of x = hits / total * 100, in tenths: the nearest tenth,
\* the larger one on a tie.
ToFixed1(hits, total) == (2000 * hits + total) \div (2 * total)

\* info(); ratio is given in tenths of a percent (ratio10 = ratio * 10).
LruInfo(l) ==
    LET total == l.hits + l.misses
    IN [hits |-> l.hits,
        misses |-> l.misses,
        maxsize |-> l.maxSize,
        currsize |-> Len(l.cache),
        ratio10 |-> IF total > 0 THEN ToFixed1(l.hits, total) ELSE 0]

\* Mutant of LruClear: the miss counter is not reset.
LruClearKeepsMisses(l) == [l EXCEPT !.cache = <<>>, !.hits = 0]

LruClear(l) == [l EXCEPT !.cache = <<>>, !.hits = 0, !.misses = 0]

(***************************************************************************)
(* The keys and values the model's callers of UniversalLRU use.            *)
(***************************************************************************)
Keys == {"key1", "key2", "key3"}
Vals == {Str("value1"), Str("value2")}
Caps == (0 - 1)..MaxCap

\* The order of last touch after `key` is touched.
Touch(order, key) == Append(SelectSeq(order, LAMBDA k : k # key), key)

\* The stored key whose last touch is the oldest (NoKey when nothing is stored).
Oldest(order, m) ==
    LET stored == SelectSeq(order, LAMBDA k : MapHas(m, k))
    IN IF Len(stored) = 0 THEN NoKey ELSE stored[1]

LastOp(op, key, val, ret) ==
    [op |-> op, key |-> key, val |-> val, ret |-> ret,
     pre |-> lru, oldest |-> Oldest(touched, lru.cache)]

InitCacheIdle ==
    /\ cfg = [type |-> "none", maxsize |-> 0]
    /\ base = <<>>
    /\ history = <<>>

InitKeyIdle ==
    /\ fkArgs = <<>>
    /\ fkKey = ""
    /\ fkPc = "idle"

\* Date.now() when the model starts, in milliseconds.
Epoch == 1000000000

InitRateIdle ==
    /\ now = Epoch
    /\ rlCfg = [requests |-> 0, window |-> "", strategy |-> "", per |-> FALSE]
    /\ calls = <<>>
    /\ rlLog = <<>>
    /\ timers = {}
    /\ fired = <<>>

InitMatrixIdle ==
    /\ mxOpts = <<>>
    /\ mxState = [lastCall |-> 0, logged |-> 0, mcalls |-> 0, errors |-> 0]
    /\ mxLog = <<>>

InitValidateIdle ==
    /\ vCfg = <<>>
    /\ vLast = [pc |-> "idle"]

InitRetryIdle ==
    /\ rtCfg = [kind |-> ""]
    /\ rt = [pc |-> "idle"]

InitDelayIdle ==
    /\ dtCfg = [kind |-> ""]
    /\ dtState = <<>>
    /\ dtLog = <<>>

InitProtectIdle ==
    /\ ptCfg = [level |-> ""]
    /\ pt = [pc |-> "idle"]

InitFactoryIdle ==
    /\ fcIn = <<>>
    /\ fcOut = [pc |-> "idle"]

InitMetricsIdle ==
    /\ mtCfg = [track |-> {}]
    /\ mt = [pc |-> "idle"]

InitSharedIdle == sh = [pc |-> "idle"]

InitMoreIdle ==
    /\ InitProtectIdle
    /\ InitFactoryIdle
    /\ InitMetricsIdle
    /\ InitSharedIdle

InitWrapIdle == InitValidateIdle /\ InitRetryIdle /\ InitDelayIdle
    /\ InitMoreIdle

\* new UniversalLRU(maxSize), or new UniversalLRU() with the default size.
InitLRU ==
    /\ \E maxSize \in Caps \cup {DefaultMaxSize} : lru = UniversalLRU(maxSize)
    /\ touched = <<>>
    /\ nHit = 0
    /\ nMiss = 0
    /\ last = [op |-> "new", key |-> NoKey, val |-> Undefined, ret |-> Undefined,
               pre |-> lru, oldest |-> NoKey]
    /\ InitCacheIdle
    /\ InitKeyIdle
    /\ InitRateIdle
    /\ InitMatrixIdle
    /\ InitWrapIdle

\* lru.get(key)
Get(key) ==
    /\ IF MapHas(lru.cache, key) THEN nHit < MaxHits ELSE nMiss < MaxMisses
    /\ lru' = LruGet(lru, key).lru
    /\ last' = LastOp("get", key, Undefined, LruGet(lru, key).ret)
    /\ touched' = IF MapHas(lru.cache, key) THEN Touch(touched, key) ELSE touched
    /\ nHit' = IF MapHas(lru.cache, key) THEN nHit + 1 ELSE nHit
    /\ nMiss' = IF MapHas(lru.cache, key) THEN nMiss ELSE nMiss + 1
    /\ UNCHANGED <<cacheVars, keyVars, rateVars, matrixVars, wrapVars>>

\* lru.set(key, value)
Set(key, value) ==
    /\ lru' = LruSet(lru, key, value)
    /\ last' = LastOp("set", key, value, Undefined)
    /\ touched' = Touch(touched, key)
    /\ UNCHANGED <<nHit, nMiss, cacheVars, keyVars, rateVars, matrixVars, wrapVars>>

\* lru.clear()
Clear ==
    /\ lru' = LruClear(lru)
    /\ last' = LastOp("clear", NoKey, Undefined, Undefined)
    /\ nHit' = 0
    /\ nMiss' = 0
    /\ UNCHANGED <<touched, cacheVars, keyVars, rateVars, matrixVars, wrapVars>>

NextLRU ==
    \/ \E key \in Keys : Get(key)
    \/ \E key \in Keys, value \in Vals : Set(key, value)
    \/ Clear

SpecLRU == InitLRU /\ [][NextLRU]_vars

(***************************************************************************)
(* Claims about UniversalLRU (checked under SpecLRU).                      *)
(***************************************************************************)

\* The keys of a map in iteration order.
KeyOrder(m) == [i \in 1..Len(m) |-> m[i].k]

\* The last operation was a set of a key not stored, on a cache of positive
\* capacity that was full.
FullInsert ==
    /\ last.op = "set"
    /\ last.pre.maxSize >= 1
    /\ ~MapHas(last.pre.cache, last.key)
    /\ Len(last.pre.cache) >= last.pre.maxSize

\* C2: with a positive capacity the number of stored entries never exceeds
\* the capacity, after any sequence of get, set and clear.
C2_SizeWithinCapacity ==
    lru.maxSize >= 1 => Cardinality(MapKeys(lru.cache)) <= lru.maxSize
                        /\ Len(lru.cache) <= lru.maxSize

\* C2 witness: a full cache of capacity 2 took a new key and is full again.
C2_Witness ==
    /\ FullInsert
    /\ lru.maxSize = 2
    /\ Len(lru.cache) = 2

\* C3: a set of a new key at capacity removes exactly one entry, the one
\* whose last touch (a set, or a get that hit) is the oldest; every other
\* entry is retained with its value, and a get of the evicted key is a miss.
C3_EvictsLeastRecentlyTouched ==
    FullInsert =>
        /\ MapKeys(last.pre.cache) \ MapKeys(lru.cache) = {last.oldest}
        /\ MapKeys(lru.cache) = (MapKeys(last.pre.cache) \ {last.oldest}) \cup {last.key}
        /\ \A k \in MapKeys(last.pre.cache) \ {last.oldest} :
              MapGet(lru.cache, k) = MapGet(last.pre.cache, k)
        /\ LruGet(lru, last.oldest).ret = Undefined
        /\ LruGet(lru, last.oldest).lru.misses = lru.misses + 1
        /\ LruGet(lru, last.oldest).lru.hits = lru.hits

\* C3 witness: in a full cache of capacity 2 holding key1 and key2, after a
\* get that hit, the insert of key3 evicted key2 and kept key1.
C3_Witness ==
    /\ FullInsert
    /\ lru.maxSize = 2
    /\ last.pre.hits > 0
    /\ last.oldest = "key2"
    /\ MapKeys(lru.cache) = {"key1", "key3"}

\* C4: a get of a present key returns the stored value, adds one to the hit
\* counter, leaves the miss counter and makes the key the most recently
\* used; a get of an absent key adds one to the miss counter and leaves the
\* hit counter, the entries and their recency order.
C4_GetHitAndMiss ==
    last.op = "get" =>
        IF MapHas(last.pre.cache, last.key)
        THEN /\ last.ret = MapGet(last.pre.cache, last.key)
             /\ lru.hits = last.pre.hits + 1
             /\ lru.misses = last.pre.misses
             /\ lru.cache[Len(lru.cache)] = [k |-> last.key, v |-> last.ret]
             /\ MapDelete(lru.cache, last.key) = MapDelete(last.pre.cache, last.key)
             /\ KeyOrder(lru.cache) = SelectSeq(touched, LAMBDA k : MapHas(lru.cache, k))
        ELSE /\ last.ret = Undefined
             /\ lru.misses = last.pre.misses + 1
             /\ lru.hits = last.pre.hits
             /\ lru.cache = last.pre.cache

\* C4 witness: a get hit the older of two stored entries.
C4_Witness ==
    /\ last.op = "get"
    /\ Len(last.pre.cache) = 2
    /\ last.pre.cache[1].k = last.key
    /\ last.ret = Str("value2")
    /\ lru.misses > 0

\* C5: a set of a key already present replaces its value and makes it the
\* most recently used without duplicating it: the size is unchanged, no
\* other entry is evicted (even at capacity) and the counters are unchanged.
C5_SetExistingKey ==
    (last.op = "set" /\ MapHas(last.pre.cache, last.key)) =>
        /\ MapGet(lru.cache, last.key) = last.val
        /\ lru.cache[Len(lru.cache)] = [k |-> last.key, v |-> last.val]
        /\ Len(lru.cache) = Len(last.pre.cache)
        /\ Cardinality(MapKeys(lru.cache)) = Len(lru.cache)
        /\ MapDelete(lru.cache, last.key) = MapDelete(last.pre.cache, last.key)
        /\ lru.hits = last.pre.hits
        /\ lru.misses = last.pre.misses

\* C5 witness: at capacity 2 the older of the two stored keys was set again
\* with another value.
C5_Witness ==
    /\ last.op = "set"
    /\ last.pre.maxSize = 2
    /\ Len(last.pre.cache) = 2
    /\ last.pre.cache[1].k = last.key
    /\ last.pre.cache[1].v # last.val

\* C7: after H hits and M misses since construction or the last clear,
\* info() reports hits = H, misses = M, currsize = the number of stored
\* entries and ratio = H/(H+M)*100 rounded to one decimal place (a tenth
\* nearest to it), or 0 when H+M = 0.
C7_InfoReports ==
    LET info == LruInfo(lru)
        total == nHit + nMiss
        error == info.ratio10 * total - 1000 * nHit
    IN /\ info.hits = nHit
       /\ info.misses = nMiss
       /\ info.currsize = Cardinality(MapKeys(lru.cache))
       /\ IF total = 0 THEN info.ratio10 = 0
          ELSE 2 * error <= total /\ 2 * (0 - error) <= total

\* C7 witness: 7 hits and 9 misses, 43.75 percent, reported as 43.8, with
\* two entries stored.
C7_Witness ==
    /\ nHit = 7
    /\ nMiss = 9
    /\ LruInfo(lru).ratio10 = 438
    /\ LruInfo(lru).currsize = 2

\* C8: a cache whose capacity is zero or negative never stores an entry:
\* currsize stays 0 and every get is a miss (construction having accepted
\* the capacity).
C8_NonPositiveCapacityStoresNothing ==
    lru.maxSize <= 0 =>
        /\ LruInfo(lru).currsize = 0
        /\ (last.op = "get" => last.ret = Undefined /\ lru.misses = last.pre.misses + 1)

(***************************************************************************)
(* fastKey applied to every argument list of up to MaxArgs values.         *)
(***************************************************************************)
ArgVals == {Undefined, Null, Num("1"), Str("1"), Str("a"), Obj}

ArgLists == UNION {[1..n -> ArgVals] : n \in 0..MaxArgs}

InitLruIdle ==
    /\ lru = UniversalLRU(DefaultMaxSize)
    /\ touched = <<>>
    /\ nHit = 0
    /\ nMiss = 0
    /\ last = [op |-> "new", key |-> NoKey, val |-> Undefined, ret |-> Undefined,
               pre |-> lru, oldest |-> NoKey]

InitKey ==
    /\ fkArgs \in {ArgsArray(list) : list \in ArgLists} \cup {NoArgs}
    /\ fkKey = ""
    /\ fkPc = "call"
    /\ InitLruIdle
    /\ InitCacheIdle
    /\ InitRateIdle
    /\ InitMatrixIdle
    /\ InitWrapIdle

\* key = fastKey(args)
FastKeyCall ==
    /\ fkPc = "call"
    /\ fkKey' = fastKey(fkArgs)
    /\ fkPc' = "done"
    /\ UNCHANGED <<fkArgs, lruVars, cacheVars, rateVars, matrixVars, wrapVars>>

NextKey == FastKeyCall

SpecKey == InitKey /\ [][NextKey]_vars

\* The key of the general path: the string forms of the arguments joined with '|'.
GeneralKey(args) == IF args.given THEN Join(args.list, "|") ELSE ""

(***************************************************************************)
(* super_cache(type, maxsize)(originalMethod)                              *)
(***************************************************************************)
LightSize == 32
FastSize == 256

\* A parameter that was not passed (undefined) takes its default.
Default(param, dflt) == IF param.given THEN param.v ELSE dflt

\* sizes[type] of sizes = { light: 32, balanced: maxsize, fast: 256 }:
\* found is FALSE where the lookup gives undefined.
Sizes(type, maxsize) ==
    CASE type = "light" -> [found |-> TRUE, n |-> LightSize]
      [] type = "balanced" -> [found |-> TRUE, n |-> maxsize]
      [] type = "fast" -> [found |-> TRUE, n |-> FastSize]
      [] OTHER -> [found |-> FALSE, n |-> 0]

\* sizes[type] || maxsize: a number is falsy when it is 0.
SuperCacheSize(typeParam, maxsizeParam) ==
    LET type == Default(typeParam, "balanced")
        maxsize == Default(maxsizeParam, DefaultMaxSize)
        size == Sizes(type, maxsize)
    IN IF size.found /\ size.n # 0 THEN size.n ELSE maxsize

\* The outcome of one invocation of the base function.
Return(v) == [kind |-> "return", v |-> v]
Throw == [kind |-> "throw", v |-> Undefined]

\* Mutant of CachedMethod: a failure of the base function is swallowed and
\* undefined is stored for the key.
CachedMethodStoresFailure(l, originalMethod, args) ==
    LET cacheKey == fastKey(ArgsArray(args))
        got == LruGet(l, cacheKey)
    IN IF got.ret = Undefined
       THEN LET result == originalMethod[args]
            IN [lru |-> LruSet(got.lru, cacheKey, result.v),
                invoked |-> TRUE, out |-> result]
       ELSE [lru |-> got.lru, invoked |-> FALSE, out |-> Return(got.ret)]

\* cachedMethod(...args): the cache after the call, whether the base
\* function was invoked, and the outcome the caller sees.
CachedMethod(l, originalMethod, args) ==
    LET cacheKey == fastKey(ArgsArray(args))
        got == LruGet(l, cacheKey)
    IN IF got.ret = Undefined
       THEN LET result == originalMethod[args]
            IN IF result.kind = "throw"
               THEN [lru |-> got.lru, invoked |-> TRUE, out |-> result]
               ELSE [lru |-> LruSet(got.lru, cacheKey, result.v),
                     invoked |-> TRUE, out |-> result]
       ELSE [lru |-> got.lru, invoked |-> FALSE, out |-> Return(got.ret)]

(***************************************************************************)
(* A function wrapped by super_cache and its callers.                      *)
(***************************************************************************)
Given(v) == [given |-> TRUE, v |-> v]
NotGiven == [given |-> FALSE, v |-> 0]

Types == {Given("light"), Given("balanced"), Given("fast"), Given("turbo"),
          [given |-> FALSE, v |-> ""]}
MaxSizes == {Given(0), Given(1), Given(2), Given(64), NotGiven}

CallArgs == {<<>>, <<Num("2"), Num("3")>>}

\* A value the base function returns for `args` other than undefined.
ResultFor(args) == Str("result:" \o Join(args, ","))

\* The base functions: for each argument list the function returns
\* undefined, returns a value of its own, or raises.
Outcomes == {Return(Undefined), Throw} \cup {Return(ResultFor(a)) : a \in CallArgs}

BaseFunctions ==
    {f \in [CallArgs -> Outcomes] :
        \A a \in CallArgs : f[a] \in {Return(Undefined), Throw, Return(ResultFor(a))}}

Event(op, args, invoked, out, l) ==
    [op |-> op, args |-> args, invoked |-> invoked, out |-> out,
     info |-> LruInfo(l), cache |-> l.cache]

InitCache ==
    /\ cfg \in [type : Types, maxsize : MaxSizes]
    /\ lru = UniversalLRU(SuperCacheSize(cfg.type, cfg.maxsize))
    /\ base \in BaseFunctions
    /\ history = <<>>
    /\ touched = <<>>
    /\ nHit = 0
    /\ nMiss = 0
    /\ last = [op |-> "new", key |-> NoKey, val |-> Undefined, ret |-> Undefined,
               pre |-> lru, oldest |-> NoKey]
    /\ InitKeyIdle
    /\ InitRateIdle
    /\ InitMatrixIdle
    /\ InitWrapIdle

\* wrapped(...args)
Call(args) ==
    /\ Len(history) < MaxCalls
    /\ LET c == CachedMethod(lru, base, args)
       IN /\ lru' = c.lru
          /\ history' = Append(history, Event("call", args, c.invoked, c.out, c.lru))
    /\ UNCHANGED <<touched, nHit, nMiss, last, cfg, base, keyVars, rateVars, matrixVars, wrapVars>>

\* wrapped.cache_clear()
CacheClear ==
    /\ Len(history) < MaxCalls
    /\ lru' = LruClear(lru)
    /\ history' = Append(history, Event("clear", <<>>, FALSE, Return(Undefined), LruClear(lru)))
    /\ UNCHANGED <<touched, nHit, nMiss, last, cfg, base, keyVars, rateVars, matrixVars, wrapVars>>

NextCache ==
    \/ \E args \in CallArgs : Call(args)
    \/ CacheClear

SpecCache == InitCache /\ [][NextCache]_vars

(***************************************************************************)
(* Claims about fastKey (checked under SpecKey).                           *)
(***************************************************************************)

\* C9: for every argument list fastKey returns the key of the general path
\* (the string forms of the arguments joined with '|'), null and undefined
\* arguments included, and the empty list maps to one fixed key.
C9_FastKeyIsGeneralKey ==
    fkPc = "done" =>
        /\ fkKey = GeneralKey(fkArgs)
        /\ (fkArgs.given /\ Len(fkArgs.list) = 0 => fkKey = "")

(***************************************************************************)
(* Claims about a function wrapped by super_cache (checked under           *)
(* SpecCache).                                                             *)
(***************************************************************************)

\* The capacity the cache was constructed with.
Capacity == SuperCacheSize(cfg.type, cfg.maxsize)

\* Calls i and i+1 are consecutive calls with identical arguments for which
\* the base function returns a value.
SamePair(i) ==
    /\ history[i].op = "call"
    /\ history[i + 1].op = "call"
    /\ history[i].args = history[i + 1].args
    /\ base[history[i].args].kind = "return"

\* C1: for every base function, whatever value it returns (undefined
\* included), the second of two consecutive calls with identical arguments
\* does not invoke the base function; on a fresh wrapper the two calls invoke
\* it exactly once and cache_info().hits is 1 after the second call.
C1_SecondCallIsHit ==
    \A i \in 1..(Len(history) - 1) :
        SamePair(i) =>
            /\ ~history[i + 1].invoked
            /\ (i = 1 => history[1].invoked /\ history[2].info.hits = 1)

\* C6: clear / cache_clear removes every entry and resets the hit and the
\* miss counter to zero, the capacity stays what it was, and the next call
\* (also one with previously cached arguments) invokes the base function
\* again.
C6_ClearResets ==
    /\ \A i \in 1..Len(history) :
         history[i].op = "clear" =>
            /\ history[i].info.currsize = 0
            /\ history[i].info.hits = 0
            /\ history[i].info.misses = 0
            /\ history[i].info.maxsize = Capacity
            /\ (i < Len(history) /\ history[i + 1].op = "call"
                    => history[i + 1].invoked)
    /\ (Len(history) > 0 /\ history[Len(history)].op = "clear"
            => lru = UniversalLRU(Capacity))

\* C6 witness: a value was computed and cached, served from the cache, the
\* cache was cleared and the same call computed it again.
C6_Witness ==
    /\ Len(history) = 4
    /\ history[1].op = "call" /\ history[1].invoked
    /\ history[1].out = Return(ResultFor(history[1].args))
    /\ history[2].op = "call" /\ history[2].args = history[1].args
    /\ ~history[2].invoked /\ history[2].info.hits = 1
    /\ history[3].op = "clear"
    /\ history[4].op = "call" /\ history[4].args = history[1].args
    /\ history[4].invoked

\* The stored entries before event i.
CacheBefore(i) == IF i = 1 THEN <<>> ELSE history[i - 1].cache

\* C11: when the base function raises, the error reaches the caller and
\* nothing is stored for that key: the stored entries are those before the
\* failing call, and a later call with the same arguments invokes the base
\* function again.
C11_FailureIsNotCached ==
    \A i \in 1..Len(history) :
        (history[i].op = "call" /\ base[history[i].args].kind = "throw") =>
            /\ history[i].invoked
            /\ history[i].out = base[history[i].args]
            /\ history[i].cache = CacheBefore(i)
            /\ ~MapHas(history[i].cache, fastKey(ArgsArray(history[i].args)))
            /\ history[i].info.currsize = Len(CacheBefore(i))

\* C11 witness: with one entry stored, a call raised twice in a row, the
\* base function being invoked both times and the entry kept.
C11_Witness ==
    /\ Len(history) = 3
    /\ history[1].op = "call" /\ history[1].out.kind = "return"
    /\ Len(history[1].cache) = 1
    /\ history[2].op = "call" /\ history[2].out.kind = "throw"
    /\ history[3].op = "call" /\ history[3].args = history[2].args
    /\ history[3].invoked /\ history[3].out.kind = "throw"
    /\ history[3].cache = history[1].cache

\* C10: the capacity is 32 for mode light, 256 for mode fast and 128 by
\* default for mode balanced (the default mode), an explicitly given size
\* overrides the capacity of the chosen mode, and cache_info().maxsize
\* reports that capacity.
C10_CapacityByMode ==
    LET type == IF cfg.type.given THEN cfg.type.v ELSE "balanced"
        expected == IF cfg.maxsize.given THEN cfg.maxsize.v
                    ELSE CASE type = "light" -> 32
                           [] type = "fast" -> 256
                           [] OTHER -> 128
    IN type \in {"light", "balanced", "fast"} =>
         \A i \in 1..Len(history) : history[i].info.maxsize = expected

\* ---------------------------------------------------------------------
\* rate_limit
\* ---------------------------------------------------------------------

\* windowMs: '1s', '1m', '1h', and one day for anything else.
WindowMs(window) ==
    CASE window = "1s" -> 1000
      [] window = "1m" -> 60000
      [] window = "1h" -> 3600000
      [] OTHER -> 86400000

\* key = typeof config.per === 'function' ? config.per(...args) : 'global';
\* the per function of the model is (user) => user.
RateKey(per, args) == IF per THEN String(args[1]) ELSE "global"

\* calls.get(key) || { count: 0, start: now }; lastResult is not set yet.
CallData(cs, key, t) ==
    IF MapHas(cs, key) THEN MapGet(cs, key)
    ELSE [count |-> 0, start |-> t, lastResult |-> Undefined]

\* "Reset window if expired": callData is the object held by the Map, so
\* the reset is kept whatever the call does next.
ResetWindow(cd, windowMs, t) ==
    IF t - cd.start > windowMs THEN [cd EXCEPT !.count = 0, !.start = t] ELSE cd

\* Mutant of LimitReached: one call too many passes.
LimitReachedOffByOne(cd, config) ==
    /\ cd.count > config.requests
    /\ config.strategy \in {"reject", "wait", "cache"}

\* callData.count >= config.requests with a strategy the code knows.
LimitReached(cd, config) ==
    /\ cd.count >= config.requests
    /\ config.strategy \in {"reject", "wait", "cache"}

\* Mutant of RecordResult: a failure of the base function erases lastResult.
RecordResultOnFailure(cd, result) ==
    [cd EXCEPT !.lastResult = result.v]

\* callData.lastResult = result, reached only when the base function returned.
RecordResult(cd, result) ==
    IF result.kind = "return" THEN [cd EXCEPT !.lastResult = result.v] ELSE cd

\* rateLimitedMethod(...args) at time t. kind says what the call did:
\* "invoke" (the base function ran, out is its outcome), "reject"
\* (RateLimitError with retryAfter), "defer" (a promise, the base function
\* runs retryAfter ms later) or "cached" (out is callData.lastResult).
RateLimitedMethod(cs, config, originalMethod, t, args) ==
    LET windowMs == WindowMs(config.window)
        key == RateKey(config.per, args)
        cd1 == ResetWindow(CallData(cs, key, t), windowMs, t)
        cs1 == IF MapHas(cs, key) THEN MapSet(cs, key, cd1) ELSE cs
        retryAfter == windowMs - (t - cd1.start)
        cd2 == [cd1 EXCEPT !.count = cd1.count + 1]
        result == originalMethod[args]
        cd3 == RecordResult(cd2, result)
    IN IF LimitReached(cd1, config)
       THEN CASE config.strategy = "reject" ->
                   [calls |-> cs1, kind |-> "reject", out |-> Throw,
                    retryAfter |-> retryAfter]
              [] config.strategy = "wait" ->
                   [calls |-> cs1, kind |-> "defer", out |-> Return(Undefined),
                    retryAfter |-> retryAfter]
              [] OTHER ->
                   [calls |-> cs1, kind |-> "cached",
                    out |-> Return(cd1.lastResult), retryAfter |-> retryAfter]
       ELSE [calls |-> MapSet(cs1, key, cd3), kind |-> "invoke", out |-> result,
             retryAfter |-> 0]

\* The calls of the model: one request of each of two users. Without a per
\* function both fall into the partition 'global'.
RlArgs == {<<Str("u1")>>, <<Str("u2")>>}

\* The base functions: each call returns a value of its own or raises.
RlBaseFunctions ==
    {f \in [RlArgs -> {Throw} \cup {Return(ResultFor(a)) : a \in RlArgs}] :
        /\ \A a \in RlArgs : f[a] \in {Throw, Return(ResultFor(a))}
        /\ f[<<Str("u1")>>].kind = "return"}

Requests == 0..MaxRequests
Windows == {"1s", "1h"}
Strategies == {"reject", "wait", "cache"}

InitRate ==
    /\ now = Epoch
    /\ rlCfg \in [requests : Requests, window : Windows, strategy : Strategies,
                  per : BOOLEAN]
    /\ base \in RlBaseFunctions
    /\ calls = <<>>
    /\ rlLog = <<>>
    /\ timers = {}
    /\ fired = <<>>
    /\ cfg = [type |-> "none", maxsize |-> 0]
    /\ history = <<>>
    /\ InitLruIdle
    /\ InitKeyIdle
    /\ InitMatrixIdle
    /\ InitWrapIdle

\* The time between two instants of the model: half a window, so that a
\* call can come before, exactly at and after the end of a window.
Tick == WindowMs(rlCfg.window) \div 2

\* limited(...args)
RlCall(args) ==
    /\ Len(rlLog) < MaxRlCalls
    /\ LET r == RateLimitedMethod(calls, rlCfg, base, now, args)
           key == RateKey(rlCfg.per, args)
           cd == ResetWindow(CallData(calls, key, now), WindowMs(rlCfg.window), now)
       IN /\ calls' = r.calls
          /\ rlLog' = Append(rlLog, [args |-> args, key |-> key, time |-> now,
                                     kind |-> r.kind, out |-> r.out,
                                     retryAfter |-> r.retryAfter,
                                     start |-> cd.start, count |-> cd.count])
          /\ timers' = IF r.kind = "defer" THEN timers \cup {Len(rlLog) + 1} ELSE timers
    /\ UNCHANGED <<now, rlCfg, fired, lruVars, cacheVars, keyVars, matrixVars, wrapVars>>

\* The setTimeout callback of a deferred call:
\* () => resolve(originalMethod.apply(this, args)). When the base function
\* throws, resolve is not reached and the promise of the call stays pending.
TimerFire(i) ==
    /\ i \in timers
    /\ now >= rlLog[i].time + rlLog[i].retryAfter
    /\ fired' = Append(fired, [call |-> i, time |-> now, out |-> base[rlLog[i].args],
                                promise |-> IF base[rlLog[i].args].kind = "return"
                                            THEN "resolved" ELSE "pending"])
    /\ timers' = timers \ {i}
    /\ UNCHANGED <<now, rlCfg, calls, rlLog, lruVars, cacheVars, keyVars, matrixVars, wrapVars>>

\* Time passes; a timer that is due runs first.
Advance ==
    /\ now < Epoch + MaxTicks * Tick
    /\ \A i \in timers : now < rlLog[i].time + rlLog[i].retryAfter
    /\ now' = now + Tick
    /\ UNCHANGED <<rlCfg, calls, rlLog, timers, fired, lruVars, cacheVars, keyVars, matrixVars, wrapVars>>

NextRate ==
    \/ \E args \in RlArgs : RlCall(args)
    \/ \E i \in 1..MaxRlCalls : TimerFire(i)
    \/ Advance

SpecRate == InitRate /\ [][NextRate]_vars

\* ---------------------------------------------------------------------
\* Claims about rate_limit
\* ---------------------------------------------------------------------

\* The calls made before call i with the partition key of call i.
EarlierSameKey(i) == {j \in 1..(i - 1) : rlLog[j].key = rlLog[i].key}

\* The start of the window call i falls into, as the claims count windows:
\* the first call of a key opens a window, and a call issued once the window
\* length has elapsed since the start of the window opens the next one.
RECURSIVE WindowStartOf(_)
WindowStartOf(i) ==
    IF EarlierSameKey(i) = {} THEN rlLog[i].time
    ELSE LET p == CHOOSE j \in EarlierSameKey(i) : \A k \in EarlierSameKey(i) : k <= j
             s == WindowStartOf(p)
         IN IF rlLog[i].time - s >= WindowMs(rlCfg.window) THEN rlLog[i].time ELSE s

\* The calls before call i of the same key and the same window.
EarlierInWindow(i) ==
    {j \in EarlierSameKey(i) : WindowStartOf(j) = WindowStartOf(i)}

\* C17: with strategy reject and requests = R >= 1, per partition key, the
\* first R calls inside a window invoke the base function and return its
\* result, every further call inside the same window raises RateLimitError
\* with a strictly positive retryAfter and does not invoke the base function,
\* and a call issued once the window length has elapsed since the window
\* start succeeds again.
C17_RejectStrategy ==
    (rlCfg.strategy = "reject" /\ rlCfg.requests >= 1) =>
        \A i \in 1..Len(rlLog) :
            IF Cardinality(EarlierInWindow(i)) < rlCfg.requests
            THEN rlLog[i].kind = "invoke" /\ rlLog[i].out = base[rlLog[i].args]
            ELSE rlLog[i].kind = "reject" /\ rlLog[i].retryAfter > 0

\* C17 away from the boundary: the same statement for the behaviours in
\* which no call comes exactly one window length after a window start.
C17_AwayFromBoundary ==
    (\A i \in 1..Len(rlLog) : rlLog[i].time - rlLog[i].start # WindowMs(rlCfg.window))
        => C17_RejectStrategy

\* The base invocations made up to call i for the key of call i in the
\* window of the counter that call i found (start is callData.start after
\* the reset test).
InvokedInCounterWindow(i) ==
    {j \in 1..i : /\ rlLog[j].key = rlLog[i].key
                  /\ rlLog[j].start = rlLog[i].start
                  /\ rlLog[j].kind = "invoke"}

\* C18 (amended): rate_limit keeps one fixed-window counter per partition
\* key: under strategy reject, between a window start of a key and the next
\* reset of its counter the base function is invoked at most `requests`
\* times for that key, and a call is rejected only when `requests`
\* invocations of its own key were made in its window, so calls made with
\* other partition keys never count against it.
C18_FixedWindowPerKey ==
    rlCfg.strategy = "reject" =>
        \A i \in 1..Len(rlLog) :
            /\ Cardinality(InvokedInCounterWindow(i)) <= rlCfg.requests
            /\ rlLog[i].kind = "reject" =>
                   Cardinality(InvokedInCounterWindow(i)) = rlCfg.requests
            /\ rlLog[i].kind \in {"invoke", "reject"}

\* C18 witness: with a per function and requests >= 1, a call of one key is
\* rejected, a call of the other key made at the same instant is served, and
\* the first key is served again in a later window.
C18_Witness ==
    /\ rlCfg.strategy = "reject" /\ rlCfg.per /\ rlCfg.requests >= 1
    /\ \E i, j, k \in 1..Len(rlLog) :
         /\ i < j /\ j < k
         /\ rlLog[i].kind = "reject"
         /\ rlLog[j].key # rlLog[i].key /\ rlLog[j].time = rlLog[i].time
         /\ rlLog[j].kind = "invoke"
         /\ rlLog[k].key = rlLog[i].key /\ rlLog[k].kind = "invoke"
         /\ rlLog[k].start > rlLog[i].start

\* C18 as stated: under strategy reject, for every partition key and every
\* time interval whose length equals the window, the base function is
\* invoked at most `requests` times for that key within the interval. (An
\* interval holding the most invocations can be taken to start at one.)
C18_SlidingWindow ==
    rlCfg.strategy = "reject" =>
        \A i \in 1..Len(rlLog) :
            rlLog[i].kind = "invoke" =>
                Cardinality({j \in 1..Len(rlLog) :
                               /\ rlLog[j].key = rlLog[i].key
                               /\ rlLog[j].kind = "invoke"
                               /\ rlLog[j].time >= rlLog[i].time
                               /\ rlLog[j].time < rlLog[i].time + WindowMs(rlCfg.window)})
                    <= rlCfg.requests

\* A call deferred by strategy wait is invoked at most once, no earlier than
\* window start + window length, and with the outcome of the base function.
DeferredOnce ==
    /\ \A n \in 1..Len(fired) :
         /\ rlLog[fired[n].call].kind = "defer"
         /\ fired[n].time >= rlLog[fired[n].call].start + WindowMs(rlCfg.window)
         /\ fired[n].out = base[rlLog[fired[n].call].args]
    /\ \A m, n \in 1..Len(fired) : fired[m].call = fired[n].call => m = n
    /\ \A i \in 1..Len(rlLog) :
         rlLog[i].kind = "defer" => (i \in timers \/ \E n \in 1..Len(fired) : fired[n].call = i)

\* The base invocations made for a key at instant t: those of calls served
\* at once and those of deferred calls.
InvocationsAt(key, t) ==
    Cardinality({i \in 1..Len(rlLog) :
                   rlLog[i].key = key /\ rlLog[i].kind = "invoke" /\ rlLog[i].time = t})
    + Cardinality({n \in 1..Len(fired) :
                   rlLog[fired[n].call].key = key /\ fired[n].time = t})

\* C19: under strategy wait (requests >= 1) a call that arrives when the
\* count has reached `requests` is deferred until the window resets (invoked
\* exactly once, no earlier than window start + window length, resolving
\* with the result), and counting deferred invocations the base function is
\* never invoked more than `requests` times per partition key within one
\* window; in particular not at one instant, which lies in one window.
C19_WaitEnforcesLimit ==
    (rlCfg.strategy = "wait" /\ rlCfg.requests >= 1) =>
        /\ DeferredOnce
        /\ \A i \in 1..Len(rlLog) : \A n \in 1..Len(fired) :
             InvocationsAt(rlLog[i].key, fired[n].time) <= rlCfg.requests

\* The first half of C19 alone: what holds of every deferred call.
C19_DeferredOnceOnly ==
    rlCfg.strategy = "wait" => DeferredOnce

\* The base invocations made before call i for the key of call i that
\* returned normally.
ReturnedBefore(i) ==
    {j \in EarlierSameKey(i) : rlLog[j].kind = "invoke" /\ rlLog[j].out.kind = "return"}

\* C20: under strategy cache, a call that arrives when the count has reached
\* `requests` does not invoke the base function and returns the result of
\* the most recent base invocation that returned normally for the same
\* partition key (never a result recorded for another key, and never the
\* result of an invocation that raised).
C20_CacheStrategy ==
    rlCfg.strategy = "cache" =>
        \A i \in 1..Len(rlLog) :
            /\ rlLog[i].kind = (IF rlLog[i].count >= rlCfg.requests THEN "cached" ELSE "invoke")
            /\ (rlLog[i].kind = "cached" /\ ReturnedBefore(i) # {}) =>
                   LET j == CHOOSE j \in ReturnedBefore(i) : \A k \in ReturnedBefore(i) : k <= j
                   IN rlLog[i].out = Return(base[rlLog[j].args].v)

\* C20 witness: in one partition an invocation returned, a later one raised,
\* and a call over the limit was answered with the result of the former.
C20_Witness ==
    /\ rlCfg.strategy = "cache"
    /\ \E i \in 1..Len(rlLog) : \E j, k \in EarlierSameKey(i) :
         /\ j < k
         /\ rlLog[j].kind = "invoke" /\ rlLog[j].out.kind = "return"
         /\ rlLog[k].kind = "invoke" /\ rlLog[k].out.kind = "throw"
         /\ rlLog[i].kind = "cached"
         /\ rlLog[i].out = rlLog[j].out
         /\ rlLog[i].args # rlLog[j].args

\* ---------------------------------------------------------------------
\* super_matrix
\* ---------------------------------------------------------------------

False == [t |-> "boolean", s |-> "false"]
True == [t |-> "boolean", s |-> "true"]

\* An outcome that raises the error e.
ThrowOf(e) == [kind |-> "throw", v |-> e]

\* decoratorOrder, for the policies of the model (varGuard, asyncRetry,
\* debounce, immutable and inherit are never given): the first is applied
\* first and so ends up innermost.
MatrixOrder ==
    <<"validate", "rateLimit", "protect", "timeLimit", "repeat", "throttle", "log", "metrics">>

MatrixKeys == {MatrixOrder[i] : i \in 1..Len(MatrixOrder)} \cup {"cache"}

\* config !== undefined && config !== false
Applies(config) == config # Undefined /\ config # False

\* The layers super_matrix wraps around the base function, innermost
\* first: those of decoratorOrder in its order, then cache.
RECURSIVE AppliedFrom(_, _)
AppliedFrom(options, i) ==
    IF i > Len(MatrixOrder) THEN <<>>
    ELSE (IF Applies(options[MatrixOrder[i]]) THEN <<MatrixOrder[i]>> ELSE <<>>)
         \o AppliedFrom(options, i + 1)

SuperMatrixLayers(options) ==
    AppliedFrom(options, 1) \o (IF Applies(options.cache) THEN <<"cache">> ELSE <<>>)

\* Wrapping fails where config.type is read from null.
WrapError(options) == options.cache = Null

\* The capacity of the cache layer: super_cache(config) for a string,
\* super_cache(config.type || 'balanced', config.maxsize) otherwise (the
\* other configs of the model have neither property).
MatrixCacheSize(config) ==
    IF config.t = "string" THEN SuperCacheSize(Given(config.s), NotGiven)
    ELSE SuperCacheSize(Given("balanced"), NotGiven)

\* The function the caller gets is the outermost layer; cachedMethod
\* carries cache_info and cache_clear, the metrics wrapper getMetrics and
\* clearMetrics, the other wrappers and the base function nothing.
Exposed(options) ==
    LET layers == SuperMatrixLayers(options)
    IN IF layers = <<>> THEN {}
       ELSE CASE layers[Len(layers)] = "cache" -> {"cache_info", "cache_clear"}
              [] layers[Len(layers)] = "metrics" -> {"getMetrics", "clearMetrics"}
              [] OTHER -> {}

\* The config each policy is given when it is configured.
ValidConfig(key) ==
    CASE key = "validate" -> [t |-> "object", s |-> "{params: [{required: true}]}"]
      [] key = "rateLimit" -> [t |-> "object", s |-> "{requests: 2}"]
      [] key = "protect" -> Str("strict")
      [] key = "timeLimit" -> Num("5000")
      [] key = "repeat" -> Num("3")
      [] key = "throttle" -> Num("1000")
      [] key = "cache" -> Str("balanced")
      [] OTHER -> True

\* The number a config value stands for where the code compares with it.
ToNumber(v) ==
    CASE v = Num("3") -> 3
      [] v = Num("1000") -> 1000
      [] v = Num("5000") -> 5000
      [] v = True -> 1
      [] v \in {Num("0"), Null, Str(""), False} -> 0

\* requests of the rate_limit defaults.
DefaultRequests == 10

\* config = { requests: 10, window: '1m', strategy: 'reject', ...options }
RateLimitConfig(options) ==
    [requests |-> IF options = ValidConfig("rateLimit") THEN 2 ELSE DefaultRequests,
     window |-> "1m", strategy |-> "reject", per |-> FALSE]

\* levels[level] || 2
ProtectionLevel(level) ==
    CASE level = Str("loose") -> 1
      [] level = Str("normal") -> 2
      [] level = Str("strict") -> 3
      [] OTHER -> 2

\* args[index], undefined beyond the end.
ArgAt(args, index) == IF index <= Len(args) THEN args[index] ELSE Undefined

\* validatedMethod raises ValidationError: the only rule of the model is
\* { required: true } for the first parameter, violated by value == null.
Rejects(options, args) ==
    /\ options = ValidConfig("validate")
    /\ ArgAt(args, 1) \in {Undefined, Null}

\* One more execution of the layer key (observer).
Ran(st, key) == [st EXCEPT !.ran[key] = @ + 1]

\* originalMethod.apply(this, args) of the base function: it raises while
\* failsLeft > 0 and gives its outcome for args afterwards.
RunBase(st, args) ==
    IF st.failsLeft > 0
    THEN [st |-> [st EXCEPT !.failsLeft = @ - 1, !.baseRuns = @ + 1],
          out |-> ThrowOf(Str("Error"))]
    ELSE [st |-> [st EXCEPT !.baseRuns = @ + 1], out |-> base[args]]

RECURSIVE RunLayer(_, _, _, _)
RECURSIVE RepeatLoop(_, _, _, _, _, _, _)

\* validatedMethod(...args); the model has no rule for the return value.
ValidatedMethod(layers, n, st, args) ==
    LET s1 == Ran(st, "validate")
    IN IF Rejects(mxOpts.validate, args)
       THEN [st |-> s1, out |-> ThrowOf(Str("ValidationError"))]
       ELSE RunLayer(layers, n - 1, s1, args)

\* rateLimitedMethod(...args) around an inner layer.
RateLimitedLayer(layers, n, st, args) ==
    LET config == RateLimitConfig(mxOpts.rateLimit)
        key == RateKey(config.per, args)
        cd1 == ResetWindow(CallData(st.calls, key, now), WindowMs(config.window), now)
        cs1 == IF MapHas(st.calls, key) THEN MapSet(st.calls, key, cd1) ELSE st.calls
        s1 == Ran([st EXCEPT !.calls = cs1], "rateLimit")
        cd2 == [cd1 EXCEPT !.count = @ + 1]
        inner == RunLayer(layers, n - 1, [s1 EXCEPT !.calls = MapSet(cs1, key, cd2)], args)
    IN IF LimitReached(cd1, config)
       THEN [st |-> s1, out |-> ThrowOf(Str("RateLimitError"))]
       ELSE [st |-> [inner.st EXCEPT
                       !.calls = MapSet(@, key, RecordResult(MapGet(@, key), inner.out))],
             out |-> inner.out]

\* protectedMethod(...args): a failure is logged and, below level 3,
\* swallowed.
ProtectedMethod(layers, n, st, args) ==
    LET inner == RunLayer(layers, n - 1, Ran(st, "protect"), args)
    IN IF inner.out.kind = "throw"
       THEN [st |-> [inner.st EXCEPT !.logged = @ + 1],
             out |-> IF ProtectionLevel(mxOpts.protect) >= 3 THEN inner.out
                     ELSE Return(Undefined)]
       ELSE inner

\* timedMethod(...args): duration is Date.now() - startTime, and the clock
\* of the model does not move during a call.
TimedMethod(layers, n, st, args) ==
    LET inner == RunLayer(layers, n - 1, Ran(st, "timeLimit"), args)
        duration == 0
    IN IF inner.out.kind = "return" /\ duration > ToNumber(mxOpts.timeLimit)
       THEN [st |-> inner.st, out |-> ThrowOf(Str("TimeoutError"))]
       ELSE inner

\* The for loop of repeatedMethod from attempt i on, then throw lastError.
RepeatLoop(layers, n, i, times, st, args, lastError) ==
    IF i >= times THEN [st |-> st, out |-> ThrowOf(lastError)]
    ELSE LET inner == RunLayer(layers, n - 1, st, args)
         IN IF inner.out.kind = "return" THEN inner
            ELSE RepeatLoop(layers, n, i + 1, times, inner.st, args, inner.out.v)

\* repeatedMethod(...args); lastError starts undefined.
RepeatedMethod(layers, n, st, args) ==
    RepeatLoop(layers, n, 0, ToNumber(mxOpts.repeat), Ran(st, "repeat"), args, Undefined)

\* throttledMethod(...args): lastCallTimes.get(this) || 0 is lastCall.
ThrottledMethod(layers, n, st, args) ==
    LET s1 == Ran(st, "throttle")
    IN IF now - s1.lastCall >= ToNumber(mxOpts.throttle)
       THEN RunLayer(layers, n - 1, [s1 EXCEPT !.lastCall = now], args)
       ELSE [st |-> s1, out |-> Return(Undefined)]

\* loggedMethod(...args) with the default config: one line for the
\* parameters, one for the timing or for the failure.
LoggedMethod(layers, n, st, args) ==
    LET s1 == Ran([st EXCEPT !.logged = @ + 1], "log")
        inner == RunLayer(layers, n - 1, s1, args)
    IN [st |-> [inner.st EXCEPT !.logged = @ + 1], out |-> inner.out]

\* wrappedMethod(...args) of metrics with the default track.
MetricsMethod(layers, n, st, args) ==
    LET inner == RunLayer(layers, n - 1, Ran(st, "metrics"), args)
    IN [st |-> [inner.st EXCEPT
                  !.mcalls = @ + 1,
                  !.errors = IF inner.out.kind = "throw" THEN @ + 1 ELSE @],
        out |-> inner.out]

\* cachedMethod(...args) around an inner layer.
CachedLayer(layers, n, st, args) ==
    LET cacheKey == fastKey(ArgsArray(args))
        got == LruGet(st.lru, cacheKey)
        s1 == Ran([st EXCEPT !.lru = got.lru], "cache")
        inner == RunLayer(layers, n - 1, s1, args)
    IN IF got.ret = Undefined
       THEN IF inner.out.kind = "throw" THEN inner
            ELSE [st |-> [inner.st EXCEPT !.lru = LruSet(@, cacheKey, inner.out.v)],
                  out |-> inner.out]
       ELSE [st |-> s1, out |-> Return(got.ret)]

\* A call of layer n of layers (innermost first) or, for n = 0, of the
\* base function.
RunLayer(layers, n, st, args) ==
    IF n = 0 THEN RunBase(st, args)
    ELSE CASE layers[n] = "validate" -> ValidatedMethod(layers, n, st, args)
           [] layers[n] = "rateLimit" -> RateLimitedLayer(layers, n, st, args)
           [] layers[n] = "protect" -> ProtectedMethod(layers, n, st, args)
           [] layers[n] = "timeLimit" -> TimedMethod(layers, n, st, args)
           [] layers[n] = "repeat" -> RepeatedMethod(layers, n, st, args)
           [] layers[n] = "throttle" -> ThrottledMethod(layers, n, st, args)
           [] layers[n] = "log" -> LoggedMethod(layers, n, st, args)
           [] layers[n] = "metrics" -> MetricsMethod(layers, n, st, args)
           [] layers[n] = "cache" -> CachedLayer(layers, n, st, args)

\* The calls of the model: one with an argument and one without.
MxArgs == {<<Str("a")>>, <<>>}

\* The base functions: a value of its own for each call, or undefined for
\* the call with an argument.
MxBaseFunctions ==
    {f \in [MxArgs -> {Return(Undefined)} \cup {Return(ResultFor(a)) : a \in MxArgs}] :
        /\ f[<<Str("a")>>] \in {Return(Undefined), Return(ResultFor(<<Str("a")>>))}
        /\ f[<<>>] = Return(ResultFor(<<>>))}

\* The values that are falsy in JavaScript, undefined aside.
Falsy == {False, Null, Num("0"), Str("")}

\* The options of the model: every set of policies configured, the others
\* absent; one policy given a falsy value, the others absent; and repeat
\* together with protect at one of the levels below strict.
MatrixOptions ==
    {[k \in MatrixKeys |-> IF k \in S THEN ValidConfig(k) ELSE Undefined] :
        S \in SUBSET MatrixKeys}
    \cup {[k \in MatrixKeys |-> IF k = key[1] THEN key[2] ELSE Undefined] :
        key \in MatrixKeys \X Falsy}
    \cup {[k \in MatrixKeys |-> IF k = "protect" THEN level
                                ELSE IF k = "repeat" THEN ValidConfig(k)
                                ELSE Undefined] :
        level \in {Str("loose"), Str("normal")}}

\* What a caller can observe of the layers' state.
Snapshot(l, cs, ms) ==
    [count |-> IF MapHas(cs, "global") THEN MapGet(cs, "global").count ELSE 0,
     mcalls |-> ms.mcalls, errors |-> ms.errors, logged |-> ms.logged,
     lastCall |-> ms.lastCall, cache |-> l.cache]

InitMatrix ==
    /\ mxOpts \in MatrixOptions
    /\ mxState = [lastCall |-> 0, logged |-> 0, mcalls |-> 0, errors |-> 0]
    /\ mxLog = <<>>
    /\ base \in MxBaseFunctions
    /\ lru = UniversalLRU(IF Applies(mxOpts.cache) /\ ~WrapError(mxOpts)
                          THEN MatrixCacheSize(mxOpts.cache) ELSE DefaultMaxSize)
    /\ touched = <<>>
    /\ nHit = 0
    /\ nMiss = 0
    /\ last = [op |-> "new", key |-> NoKey, val |-> Undefined, ret |-> Undefined,
               pre |-> lru, oldest |-> NoKey]
    /\ cfg = [type |-> "none", maxsize |-> 0]
    /\ history = <<>>
    /\ InitKeyIdle
    /\ InitRateIdle
    /\ InitWrapIdle

\* wrapped(...args) of the function super_matrix returned, the base
\* function raising on its first `fails` invocations during the call.
MxCall(args, fails) ==
    /\ ~WrapError(mxOpts)
    /\ Len(mxLog) < MaxMxCalls
    /\ LET layers == SuperMatrixLayers(mxOpts)
           st == [lru |-> lru, calls |-> calls, lastCall |-> mxState.lastCall,
                  logged |-> mxState.logged, mcalls |-> mxState.mcalls,
                  errors |-> mxState.errors, ran |-> [k \in MatrixKeys |-> 0],
                  baseRuns |-> 0, failsLeft |-> fails]
           r == RunLayer(layers, Len(layers), st, args)
           ms == [lastCall |-> r.st.lastCall, logged |-> r.st.logged,
                  mcalls |-> r.st.mcalls, errors |-> r.st.errors]
       IN /\ lru' = r.st.lru
          /\ calls' = r.st.calls
          /\ mxState' = ms
          /\ mxLog' = Append(mxLog, [args |-> args, fails |-> fails, out |-> r.out,
                                     ran |-> r.st.ran, baseRuns |-> r.st.baseRuns,
                                     before |-> Snapshot(lru, calls, mxState),
                                     after |-> Snapshot(r.st.lru, r.st.calls, ms)])
    /\ UNCHANGED <<touched, nHit, nMiss, last, cacheVars, keyVars,
                   now, rlCfg, rlLog, timers, fired, mxOpts, wrapVars>>

NextMatrix == \E args \in MxArgs : \E fails \in 0..MaxFails : MxCall(args, fails)

SpecMatrix == InitMatrix /\ [][NextMatrix]_vars

\* ---------------------------------------------------------------------
\* Claims about super_matrix
\* ---------------------------------------------------------------------

\* The policy key is configured: its value is present and not falsy.
Configured(key) == mxOpts[key] \notin Falsy \cup {Undefined}

\* The first two calls have identical arguments, and the first one needed
\* no retry and returned.
TwoIdenticalCalls ==
    /\ Len(mxLog) >= 2
    /\ mxLog[1].args = mxLog[2].args
    /\ mxLog[1].fails = 0
    /\ mxLog[1].out.kind = "return"

\* C12: with both cache and metrics configured a cache hit bypasses every
\* other layer: after two calls with identical arguments the metrics
\* accumulator has recorded exactly one call, and the base function and
\* every other configured layer ran exactly once.
C12_CacheHitBypassesLayers ==
    (Configured("cache") /\ Configured("metrics") /\ TwoIdenticalCalls) =>
        /\ mxLog[2].after.mcalls = 1
        /\ mxLog[1].baseRuns + mxLog[2].baseRuns = 1
        /\ \A k \in MatrixKeys \ {"cache"} :
             Configured(k) => mxLog[1].ran[k] + mxLog[2].ran[k] = 1

\* C12 for the base functions whose result is not undefined.
C12_ForDefinedResults ==
    (TwoIdenticalCalls /\ base[mxLog[1].args] # Return(Undefined)) =>
        C12_CacheHitBypassesLayers

\* The arguments violate the validation rule of the model.
BadInput(args) == ArgAt(args, 1) \in {Undefined, Null}

\* C13: with validate and any other policies configured, a call whose
\* arguments violate a validation rule is rejected before any other layer
\* has a side effect: the rate-limit counter is not incremented, no metrics
\* call is recorded, nothing is logged, no throttle timestamp is set, and
\* the base function is not invoked.
C13_ValidationRejectsFirst ==
    Configured("validate") =>
        \A i \in 1..Len(mxLog) :
            BadInput(mxLog[i].args) =>
                /\ mxLog[i].out = ThrowOf(Str("ValidationError"))
                /\ mxLog[i].after.count = mxLog[i].before.count
                /\ mxLog[i].after.mcalls = mxLog[i].before.mcalls
                /\ mxLog[i].after.logged = mxLog[i].before.logged
                /\ mxLog[i].after.lastCall = mxLog[i].before.lastCall
                /\ mxLog[i].baseRuns = 0

\* The last part of C13 alone: the base function is not invoked.
C13_BaseNotInvoked ==
    Configured("validate") =>
        \A i \in 1..Len(mxLog) : BadInput(mxLog[i].args) => mxLog[i].baseRuns = 0

\* C14: with repeat configured each retry attempt re-runs only the base
\* function: during one outer call no other configured layer (validate,
\* rate-limit counting, protect, time-limit, log, metrics) executes more
\* than once.
C14_RetryRerunsOnlyBase ==
    Configured("repeat") =>
        \A i \in 1..Len(mxLog) :
            /\ \A k \in {"validate", "rateLimit", "protect", "timeLimit", "log", "metrics"} :
                 mxLog[i].ran[k] <= 1
            /\ mxLog[i].after.count - mxLog[i].before.count <= 1

\* The layers outside repeat run once per outer call.
C14_OuterLayersOnce ==
    \A i \in 1..Len(mxLog) :
        \A k \in {"throttle", "log", "metrics", "cache"} : mxLog[i].ran[k] <= 1

\* The keys of the layers super_matrix applied.
AppliedKeys == {SuperMatrixLayers(mxOpts)[n] : n \in 1..Len(SuperMatrixLayers(mxOpts))}

\* C15: super_matrix applies exactly the policies whose configuration value
\* is present and not falsy: a policy whose key is absent or whose value is
\* falsy adds no layer and raises no error, and with no applicable policy
\* the returned function behaves exactly like the base function.
C15_OnlyTruthyPoliciesApply ==
    /\ ~WrapError(mxOpts)
    /\ AppliedKeys = {k \in MatrixKeys : Configured(k)}
    /\ (\A k \in MatrixKeys : ~Configured(k)) =>
           \A i \in 1..Len(mxLog) :
               /\ mxLog[i].baseRuns = 1
               /\ mxLog[i].out = (IF mxLog[i].fails > 0 THEN ThrowOf(Str("Error"))
                                  ELSE base[mxLog[i].args])
               /\ mxLog[i].after = mxLog[i].before

\* C15 for the options without a falsy value other than false.
C15_WithoutFalsyValues ==
    (\A k \in MatrixKeys : mxOpts[k] \notin Falsy \ {False}) => C15_OnlyTruthyPoliciesApply

\* C16: the function returned by super_matrix exposes cache_info and
\* cache_clear whenever cache is configured, and getMetrics and
\* clearMetrics whenever metrics is configured, for every combination of
\* other configured policies.
C16_AccessorsExposed ==
    /\ Configured("cache") => {"cache_info", "cache_clear"} \subseteq Exposed(mxOpts)
    /\ Configured("metrics") => {"getMetrics", "clearMetrics"} \subseteq Exposed(mxOpts)

\* C16 for the options that do not configure cache and metrics together.
C16_NotBoth ==
    ~(Configured("cache") /\ Configured("metrics")) => C16_AccessorsExposed

\* ---------------------------------------------------------------------
\* validate
\* ---------------------------------------------------------------------

\* A rule of config.params or config.return; type, pattern and validate are
\* "" and min and max are NotGiven where the rule has no such property.
Rule(required, type, min, max, pattern, validate) ==
    [required |-> required, type |-> type, min |-> min, max |-> max,
     pattern |-> pattern, validate |-> validate]

\* typeof value
TypeOf(v) == IF v.t = "null" THEN "object" ELSE v.t

\* value == null
IsNullish(v) == v.t \in {"undefined", "null"}

\* The number a decimal string of the model stands for.
Decimal(d) ==
    CASE d = "0" -> 0
      [] d = "5" -> 5
      [] d = "200" -> 200

\* value < n and value > n for a number, null (0) or undefined (NaN).
LessThan(v, n) ==
    CASE v.t = "undefined" -> FALSE
      [] v.t = "null" -> 0 < n
      [] OTHER -> Decimal(v.s) < n

GreaterThan(v, n) ==
    CASE v.t = "undefined" -> FALSE
      [] v.t = "null" -> 0 > n
      [] OTHER -> Decimal(v.s) > n

\* rule.pattern.test(value) for the pattern of the model, /^ab$/.
PatternTest(pattern, v) == pattern = "^ab$" /\ v.s = "ab"

\* rule.validate(value) for the predicate of the model, (v) => v !== 5.
Predicate(validate, v) == validate = "notFive" /\ v # Num("5")

\* The checks of one position, in the order of the code: the name of the
\* check that raises ValidationError, "TypeError" where value.length is
\* read from null or undefined, "ok" where nothing raises.
CheckParam(rule, value) ==
    IF rule.required /\ IsNullish(value) THEN "required"
    ELSE IF rule.type # "" /\ ~IsNullish(value) /\ TypeOf(value) # rule.type THEN "type"
    ELSE IF rule.min.given /\ rule.type = "string" /\ IsNullish(value) THEN "TypeError"
    ELSE IF rule.min.given /\ rule.type = "string" /\ Len(value.s) < rule.min.v THEN "min"
    ELSE IF rule.min.given /\ rule.type = "number" /\ LessThan(value, rule.min.v) THEN "min"
    ELSE IF rule.max.given /\ rule.type = "string" /\ IsNullish(value) THEN "TypeError"
    ELSE IF rule.max.given /\ rule.type = "string" /\ Len(value.s) > rule.max.v THEN "max"
    ELSE IF rule.max.given /\ rule.type = "number" /\ GreaterThan(value, rule.max.v) THEN "max"
    ELSE IF rule.pattern # "" /\ TypeOf(value) = "string" /\ ~PatternTest(rule.pattern, value)
         THEN "pattern"
    ELSE IF rule.validate # "" /\ ~Predicate(rule.validate, value) THEN "validate"
    ELSE "ok"

\* The checks of the return value: required, type and the custom predicate.
CheckReturn(rule, result) ==
    IF rule.required /\ IsNullish(result) THEN "required"
    ELSE IF rule.type # "" /\ ~IsNullish(result) /\ TypeOf(result) # rule.type THEN "type"
    ELSE IF rule.validate # "" /\ ~Predicate(rule.validate, result) THEN "validate"
    ELSE "ok"

\* config.params.forEach from position index on (index counts from 1, the
\* code's from 0): the first position whose checks raise, and the check.
RECURSIVE CheckParams(_, _, _)
CheckParams(params, args, index) ==
    IF index > Len(params) THEN [check |-> "ok", index |-> 0]
    ELSE LET c == CheckParam(params[index], ArgAt(args, index))
         IN IF c # "ok" THEN [check |-> c, index |-> index]
            ELSE CheckParams(params, args, index + 1)

\* `param${index}` for the code's index.
IndexString(n) ==
    CASE n = 0 -> "0"
      [] n = 1 -> "1"
      [] n = 2 -> "2"
      [] n = 3 -> "3"
      [] n = 4 -> "4"
      [] n = 5 -> "5"
      [] n = 6 -> "6"
      [] n = 7 -> "7"
      [] n = 8 -> "8"
      [] n = 9 -> "9"
      [] n = 0 - 1 -> "-1"

\* new ValidationError(message, fieldName); s is the fieldName.
ValidationError(fieldName) == [t |-> "ValidationError", s |-> fieldName]

\* The TypeError of reading a property of null or undefined.
TypeError == [t |-> "TypeError", s |-> "Cannot read properties of undefined"]

\* Mutant of ValidatedCall: the parameters are checked after the base
\* function ran.
ValidatedCallChecksLate(config, args, result) ==
    LET p == CheckParams(config.params, args, 1)
    IN IF result.kind = "throw" THEN [out |-> result, invoked |-> TRUE, check |-> "ok"]
       ELSE IF p.check # "ok"
       THEN [out |-> ThrowOf(ValidationError("param" \o IndexString(p.index - 1))),
             invoked |-> TRUE, check |-> p.check]
       ELSE [out |-> result, invoked |-> TRUE, check |-> "ok"]

\* validatedMethod(...args), result being what the base function does when
\* it is invoked: the outcome, whether the base function was invoked, and
\* the check that raised.
ValidatedCall(config, args, result) ==
    LET p == CheckParams(config.params, args, 1)
        r == IF config.return.given /\ result.kind = "return"
             THEN CheckReturn(config.return.v, result.v) ELSE "ok"
    IN IF p.check = "TypeError"
       THEN [out |-> ThrowOf(TypeError), invoked |-> FALSE, check |-> p.check]
       ELSE IF p.check # "ok"
       THEN [out |-> ThrowOf(ValidationError("param" \o IndexString(p.index - 1))),
             invoked |-> FALSE, check |-> p.check]
       ELSE IF r # "ok"
       THEN [out |-> ThrowOf(ValidationError("return")), invoked |-> TRUE, check |-> r]
       ELSE [out |-> result, invoked |-> TRUE, check |-> "ok"]

\* The rules of the model: those of the test suite (a required name of at
\* least 3 characters, an age between 1 and 150), an optional string of at
\* least 3 characters, a pattern with a predicate, and the empty rule.
NoRule == Rule(FALSE, "", NotGiven, NotGiven, "", "")
ParamRules ==
    {Rule(TRUE, "string", Given(3), NotGiven, "", ""),
     Rule(FALSE, "number", Given(1), Given(150), "", ""),
     Rule(FALSE, "string", Given(3), NotGiven, "", ""),
     Rule(FALSE, "", NotGiven, NotGiven, "^ab$", "notFive"),
     NoRule}

\* The values config.return takes: absent, a required string, a number of
\* at least 10, and a string matching the pattern.
ReturnRules ==
    {[given |-> FALSE, v |-> NoRule],
     Given(Rule(TRUE, "string", NotGiven, NotGiven, "", "")),
     Given(Rule(FALSE, "number", Given(10), NotGiven, "", "")),
     Given(Rule(FALSE, "string", NotGiven, NotGiven, "^ab$", "notFive"))}

\* The sequences over S of length at most n.
SeqUpTo(S, n) == UNION {[1..m -> S] : m \in 0..n}

ValidateValues == {Null, Num("5"), Num("200"), Str("ab"), Str("abcd")}

\* What the base function does when it is invoked.
ValidateResults ==
    {Return(v) : v \in {Undefined, Num("5"), Str("ab"), Str("abcd")}}
    \cup {ThrowOf(Str("Error"))}

InitValidate ==
    /\ vCfg \in [params : SeqUpTo(ParamRules, MaxParams), return : ReturnRules]
    /\ vLast = [pc |-> "idle"]
    /\ InitLruIdle
    /\ InitCacheIdle
    /\ InitKeyIdle
    /\ InitRateIdle
    /\ InitMatrixIdle
    /\ InitRetryIdle
    /\ InitDelayIdle
    /\ InitMoreIdle

\* validated(...args); validate keeps no state between calls, so one call
\* per behaviour shows all there is.
ValidateCall(args, result) ==
    /\ vLast.pc = "idle"
    /\ LET c == ValidatedCall(vCfg, args, result)
       IN vLast' = [pc |-> "done", args |-> args, result |-> result, out |-> c.out,
                    invoked |-> c.invoked, check |-> c.check]
    /\ UNCHANGED <<vCfg, lruVars, cacheVars, keyVars, rateVars, matrixVars,
                   retryVars, delayVars, moreVars>>

NextValidate ==
    \E args \in SeqUpTo(ValidateValues, MaxParams) : \E result \in ValidateResults :
        ValidateCall(args, result)

SpecValidate == InitValidate /\ [][NextValidate]_vars

\* ---------------------------------------------------------------------
\* Claims about validate
\* ---------------------------------------------------------------------

\* The checks a value violates under a rule, as the claims read them: an
\* absent or null value violates required where the rule requires it and
\* has nothing else to be measured; a present value violates type when it
\* is of another type, min and max by its length (strings) or its value
\* (numbers), pattern when a string does not match; the custom predicate
\* decides about every value.
Violated(rule, value) ==
    {c \in {"required"} : rule.required /\ IsNullish(value)}
    \cup {c \in {"type"} : ~IsNullish(value) /\ rule.type # "" /\ TypeOf(value) # rule.type}
    \cup {c \in {"min"} : /\ rule.min.given /\ TypeOf(value) = rule.type
                          /\ \/ rule.type = "string" /\ Len(value.s) < rule.min.v
                             \/ rule.type = "number" /\ Decimal(value.s) < rule.min.v}
    \cup {c \in {"max"} : /\ rule.max.given /\ TypeOf(value) = rule.type
                          /\ \/ rule.type = "string" /\ Len(value.s) > rule.max.v
                             \/ rule.type = "number" /\ Decimal(value.s) > rule.max.v}
    \cup {c \in {"pattern"} : /\ rule.pattern # "" /\ TypeOf(value) = "string"
                              /\ ~PatternTest(rule.pattern, value)}
    \cup {c \in {"validate"} : rule.validate # "" /\ ~Predicate(rule.validate, value)}

CheckOrder == <<"required", "type", "min", "max", "pattern", "validate">>

\* The first violated check in the order of the claim, "ok" if there is none.
FirstViolated(rule, value) ==
    IF Violated(rule, value) = {} THEN "ok"
    ELSE CheckOrder[CHOOSE n \in 1..Len(CheckOrder) :
                      /\ CheckOrder[n] \in Violated(rule, value)
                      /\ \A m \in 1..(n - 1) : CheckOrder[m] \notin Violated(rule, value)]

\* The positions of the last call whose rule is violated.
BadPositions ==
    {i \in 1..Len(vCfg.params) :
        FirstViolated(vCfg.params[i], ArgAt(vLast.args, i)) # "ok"}

FirstBad == CHOOSE i \in BadPositions : \A j \in BadPositions : i <= j

\* C22: for every rule list and every argument list (absent or null
\* arguments at positions whose rule is not required included), validate
\* checks the positions in increasing order and, within a position,
\* required, type, min, max, pattern and the custom predicate in that
\* order; the first violation raises a ValidationError whose fieldName is
\* param<index> of the offending position, no other kind of error is raised
\* by the checks, and when no rule is violated the base function's result
\* is returned unchanged.
C22_ParamChecksInOrder ==
    vLast.pc = "done" =>
        /\ ~vLast.invoked => vLast.out.kind = "throw" /\ vLast.out.v.t = "ValidationError"
        /\ BadPositions # {} =>
             /\ ~vLast.invoked
             /\ vLast.out = ThrowOf(ValidationError("param" \o IndexString(FirstBad - 1)))
             /\ vLast.check = FirstViolated(vCfg.params[FirstBad], ArgAt(vLast.args, FirstBad))
        /\ (BadPositions = {} /\ ~vCfg.return.given) =>
             vLast.invoked /\ vLast.out = vLast.result

\* C22 for the calls that give a value other than null at every position
\* that has a rule.
C22_ForPresentArguments ==
    (/\ vLast.pc = "done"
     /\ \A i \in 1..Len(vCfg.params) : ~IsNullish(ArgAt(vLast.args, i)))
        => C22_ParamChecksInOrder

\* The base function was invoked and returned while config.return is given.
ReturnChecked ==
    /\ vLast.pc = "done"
    /\ vLast.invoked
    /\ vLast.result.kind = "return"
    /\ vCfg.return.given

\* C23: after the base function returns, validate applies to the return
\* value the same rule classes it applies to parameters (required, type,
\* min, max, pattern, custom predicate): a return value violating any of
\* them raises a ValidationError for field 'return'.
C23_ReturnRules ==
    ReturnChecked =>
        IF Violated(vCfg.return.v, vLast.result.v) # {}
        THEN vLast.out = ThrowOf(ValidationError("return"))
        ELSE vLast.out = vLast.result

\* C23 for the return values that violate neither min, max nor pattern.
C23_RequiredTypePredicateOnly ==
    (ReturnChecked /\
     Violated(vCfg.return.v, vLast.result.v) \cap {"min", "max", "pattern"} = {})
        => C23_ReturnRules

\* ---------------------------------------------------------------------
\* The failures validate and rate_limit raise themselves: a function
\* wrapped by validate, or one wrapped by rate_limit with strategy reject.
\* ---------------------------------------------------------------------

InitFailFast ==
    \/ InitValidate
    \/ InitRate /\ rlCfg.strategy = "reject"

NextFailFast ==
    \/ rlCfg.strategy = "" /\ NextValidate
    \/ rlCfg.strategy = "reject" /\ \E args \in RlArgs : RlCall(args)
    \/ rlCfg.strategy = "reject" /\ Advance

SpecFailFast == InitFailFast /\ [][NextFailFast]_vars

\* The last call of the validated function raised a ValidationError for a
\* parameter.
RaisedForParam ==
    /\ vLast.pc = "done"
    /\ vLast.out.kind = "throw"
    /\ vLast.out.v.t = "ValidationError"
    /\ vLast.out.v.s # "return"

\* The last call of the validated function raised a ValidationError for
\* field 'return'.
RaisedForReturn ==
    /\ vLast.pc = "done"
    /\ vLast.out = ThrowOf(ValidationError("return"))

\* A RateLimitError is raised by the call itself, at the limit, and no
\* invocation of the base function is made for that call.
RateLimitErrorsFailFast ==
    /\ \A i \in 1..Len(rlLog) :
         rlLog[i].kind = "reject" =>
             /\ rlLog[i].count >= rlCfg.requests
             /\ rlLog[i].out = Throw
    /\ fired = <<>> /\ timers = {}

\* C21 (amended): a ValidationError for a parameter and a RateLimitError
\* are raised synchronously before the base function is invoked; a
\* ValidationError for field 'return' is raised synchronously after the
\* base function was invoked and returned.
C21_OwnFailures ==
    /\ RaisedForParam => ~vLast.invoked
    /\ RaisedForReturn => vLast.invoked /\ vLast.result.kind = "return"
    /\ RateLimitErrorsFailFast

\* C21 witness: a ValidationError for field 'return' after the base
\* function returned a value the return rule rejects.
C21_Witness ==
    /\ RaisedForReturn
    /\ vLast.invoked
    /\ vLast.check = "required"

\* C21 as stated: whenever the validate-wrapped or rate_limit-wrapped
\* function raises its own failure, the base function has not been invoked
\* during that call.
C21_NeverInvoked ==
    /\ (RaisedForParam \/ RaisedForReturn) => ~vLast.invoked
    /\ RateLimitErrorsFailFast

\* ---------------------------------------------------------------------
\* repeat, async_retry and time_limit
\* ---------------------------------------------------------------------

\* The base function of these decorators follows a script: the kinds of the
\* errors its first invocations raise, one after the other; the invocation
\* after the last of them succeeds. Invocation n (from 1) gives:
BaseAttempt(script, n) ==
    IF n > Len(script) THEN Return(Str("Success on attempt " \o IndexString(n)))
    ELSE ThrowOf([t |-> script[n], s |-> "attempt " \o IndexString(n)])

\* Mutant of RepeatFrom: the first error is kept.
RECURSIVE RepeatFromKeepsFirst(_, _, _, _, _)
RepeatFromKeepsFirst(i, times, script, lastError, invoked) ==
    IF i >= times THEN [out |-> ThrowOf(lastError), invoked |-> invoked]
    ELSE LET result == BaseAttempt(script, invoked + 1)
         IN IF result.kind = "return" THEN [out |-> result, invoked |-> invoked + 1]
            ELSE RepeatFromKeepsFirst(i + 1, times, script,
                     IF lastError = Undefined THEN result.v ELSE lastError, invoked + 1)

\* The for loop of repeatedMethod from attempt i on, with `throw lastError`
\* after it; invoked counts the invocations made so far. (The busy wait
\* between attempts changes nothing but the clock.)
RECURSIVE RepeatFrom(_, _, _, _, _)
RepeatFrom(i, times, script, lastError, invoked) ==
    IF i >= times THEN [out |-> ThrowOf(lastError), invoked |-> invoked]
    ELSE LET result == BaseAttempt(script, invoked + 1)
         IN IF result.kind = "return" THEN [out |-> result, invoked |-> invoked + 1]
            ELSE RepeatFrom(i + 1, times, script, result.v, invoked + 1)

\* repeatedMethod(...args)
RepeatedCall(times, script) == RepeatFrom(0, times, script, Undefined, 0)

\* new TimeoutError(message, milliseconds); s is the timeLimit.
TimeoutError(milliseconds) == [t |-> "TimeoutError", s |-> IndexString(milliseconds)]

\* Mutant of TimedCall: a duration equal to the limit is a timeout.
TimedCallAtLimit(milliseconds, script, duration) ==
    LET result == BaseAttempt(script, 1)
    IN IF result.kind = "return" /\ duration >= milliseconds
       THEN [out |-> ThrowOf(TimeoutError(milliseconds)), invoked |-> 1]
       ELSE [out |-> result, invoked |-> 1]

\* timedMethod(...args), the invocation of the base function taking
\* duration milliseconds.
TimedCall(milliseconds, script, duration) ==
    LET result == BaseAttempt(script, 1)
    IN IF result.kind = "return" /\ duration > milliseconds
       THEN [out |-> ThrowOf(TimeoutError(milliseconds)), invoked |-> 1]
       ELSE [out |-> result, invoked |-> 1]

\* new RetryError(message, attempts, lastError): the constructor takes
\* (message, attempts) and passes no originalError on, so the third
\* argument is dropped; s is the attempts.
RetryError(attempts) == [t |-> "RetryError", s |-> IndexString(attempts)]
RetryErrorOriginalError(lastError) == Undefined

\* Mutant of ShouldRetry: every failure is retried.
ShouldRetryAlways(retryOn, error) == TRUE

\* retryOn.length > 0 ? retryOn.some(ErrorClass => error instanceof ErrorClass) : true
ShouldRetry(retryOn, error) == retryOn = {} \/ error.t \in retryOn

\* config.exponentialBackoff ? config.delay * Math.pow(2, i) : config.delay
RetryDelay(config, i) ==
    IF config.exponentialBackoff THEN config.delay * (2 ^ i) ELSE config.delay

\* The error classes a base function raises; NetworkError is the one the
\* retryOn lists of the model name.
ErrorKinds == {"NetworkError", "OtherError"}

\* repeat(times) and async_retry({attempts}) are given zero and a negative
\* number too.
Times == (0 - 1)..MaxTimes

\* One failure more than the greatest number of attempts, so that a base
\* function can outlast every configuration.
Scripts == SeqUpTo(ErrorKinds, MaxTimes)

RetryOnLists == {{}, {"NetworkError"}}

\* time_limit(milliseconds), and the durations of the base function around it.
TimeLimits == {0, 5}
Durations == {0, 5, 6}

\* The configuration one decorator of this group was applied with; the fields
\* the decorator does not read keep the defaults of the model.
RetryConfig(kind, times, retryOn, exponentialBackoff, milliseconds) ==
    [kind |-> kind, times |-> times, retryOn |-> retryOn, delay |-> 10,
     exponentialBackoff |-> exponentialBackoff, milliseconds |-> milliseconds]

NoOutcome == [kind |-> "pending", v |-> Undefined]

\* The state of the one call of a behaviour.
RetryCall(pc, script, i, invoked, lastError, originalError, out, slept, duration) ==
    [pc |-> pc, script |-> script, i |-> i, invoked |-> invoked,
     lastError |-> lastError, originalError |-> originalError, out |-> out,
     slept |-> slept, duration |-> duration]

InitRetry ==
    /\ rtCfg \in {RetryConfig("repeat", times, {}, FALSE, 0) : times \in Times}
          \cup {RetryConfig("async_retry", c[1], c[2], c[3], 0) :
                    c \in Times \X RetryOnLists \X BOOLEAN}
          \cup {RetryConfig("time_limit", 0, {}, FALSE, ms) : ms \in TimeLimits}
    /\ rt = [pc |-> "idle"]
    /\ InitLruIdle
    /\ InitCacheIdle
    /\ InitKeyIdle
    /\ InitRateIdle
    /\ InitMatrixIdle
    /\ InitValidateIdle
    /\ InitDelayIdle
    /\ InitMoreIdle

\* repeatedMethod(...args): synchronous, so the call is one step.
RepeatCall(script) ==
    /\ rtCfg.kind = "repeat"
    /\ rt.pc = "idle"
    /\ LET r == RepeatedCall(rtCfg.times, script)
       IN rt' = RetryCall("done", script, 0, r.invoked, Undefined, Undefined,
                          r.out, <<>>, 0)
    /\ UNCHANGED <<rtCfg, lruVars, cacheVars, keyVars, rateVars, matrixVars,
                   validateVars, delayVars, moreVars>>

\* timedMethod(...args)
TimeLimitCall(script, duration) ==
    /\ rtCfg.kind = "time_limit"
    /\ rt.pc = "idle"
    /\ LET r == TimedCall(rtCfg.milliseconds, script, duration)
       IN rt' = RetryCall("done", script, 0, r.invoked, Undefined, Undefined,
                          r.out, <<>>, duration)
    /\ UNCHANGED <<rtCfg, lruVars, cacheVars, keyVars, rateVars, matrixVars,
                   validateVars, delayVars, moreVars>>

\* retryMethod(...args) is called: let lastError; i = 0.
RetryStart(script) ==
    /\ rtCfg.kind = "async_retry"
    /\ rt.pc = "idle"
    /\ rt' = RetryCall("loop", script, 0, 0, Undefined, Undefined, NoOutcome, <<>>, 0)
    /\ UNCHANGED <<rtCfg, lruVars, cacheVars, keyVars, rateVars, matrixVars,
                   validateVars, delayVars, moreVars>>

\* One pass of the for loop up to its next await or to the end of the call:
\* the loop test, then the try block and the catch block, or the throw of
\* the RetryError after the loop.
RetryAttempt ==
    /\ rtCfg.kind = "async_retry"
    /\ rt.pc = "loop"
    /\ IF rt.i >= rtCfg.times
       THEN rt' = [rt EXCEPT !.pc = "done",
                             !.out = ThrowOf(RetryError(rtCfg.times)),
                             !.originalError = RetryErrorOriginalError(rt.lastError)]
       ELSE LET result == BaseAttempt(rt.script, rt.invoked + 1)
            IN IF result.kind = "return"
               THEN rt' = [rt EXCEPT !.pc = "done", !.invoked = @ + 1, !.out = result]
               ELSE IF ~ShouldRetry(rtCfg.retryOn, result.v)
               THEN rt' = [rt EXCEPT !.pc = "done", !.invoked = @ + 1,
                                     !.lastError = result.v, !.out = result]
               ELSE IF rt.i < rtCfg.times - 1
               THEN rt' = [rt EXCEPT !.pc = "sleep", !.invoked = @ + 1,
                                     !.lastError = result.v,
                                     !.slept = Append(@, RetryDelay(rtCfg, rt.i))]
               ELSE rt' = [rt EXCEPT !.i = @ + 1, !.invoked = @ + 1,
                                     !.lastError = result.v]
    /\ UNCHANGED <<rtCfg, lruVars, cacheVars, keyVars, rateVars, matrixVars,
                   validateVars, delayVars, moreVars>>

\* The timer of `await new Promise(resolve => setTimeout(resolve, delay))`
\* fires: i++ and back to the loop test.
RetryWake ==
    /\ rtCfg.kind = "async_retry"
    /\ rt.pc = "sleep"
    /\ rt' = [rt EXCEPT !.pc = "loop", !.i = @ + 1]
    /\ UNCHANGED <<rtCfg, lruVars, cacheVars, keyVars, rateVars, matrixVars,
                   validateVars, delayVars, moreVars>>

NextRetry ==
    \/ \E script \in Scripts : RepeatCall(script)
    \/ \E script \in Scripts, duration \in Durations : TimeLimitCall(script, duration)
    \/ \E script \in Scripts : RetryStart(script)
    \/ RetryAttempt
    \/ RetryWake

SpecRetry == InitRetry /\ [][NextRetry]_vars

\* ---------------------------------------------------------------------
\* Claims about repeat, async_retry and time_limit
\* ---------------------------------------------------------------------

\* The invocation on which the base function of the call succeeds.
SuccessAt == Len(rt.script) + 1

RepeatDone == rtCfg.kind = "repeat" /\ rt.pc = "done"
RetryDone == rtCfg.kind = "async_retry" /\ rt.pc = "done"
TimeLimitDone == rtCfg.kind = "time_limit" /\ rt.pc = "done"

\* C24: for a base function that raises on its first k-1 invocations and
\* succeeds on the k-th, repeat(times) with times >= k returns the success
\* value after exactly k invocations, and repeat(times) with 1 <= times < k
\* raises after exactly `times` invocations, the error being the one of the
\* last attempt.
C24_RepeatAttempts ==
    RepeatDone =>
        /\ rtCfg.times >= SuccessAt =>
               /\ rt.out = BaseAttempt(rt.script, SuccessAt)
               /\ rt.out.kind = "return"
               /\ rt.invoked = SuccessAt
        /\ (1 <= rtCfg.times /\ rtCfg.times < SuccessAt) =>
               /\ rt.out = BaseAttempt(rt.script, rtCfg.times)
               /\ rt.out.kind = "throw"
               /\ rt.invoked = rtCfg.times

\* C24, its case: repeat(3) has given up on a base function whose first
\* three invocations raise, after an attempt whose error differs from the
\* first one's.
C24_Witness ==
    /\ RepeatDone
    /\ rtCfg.times = 3
    /\ SuccessAt > 3
    /\ rt.out.kind = "throw"
    /\ rt.out.v # BaseAttempt(rt.script, 1).v
    /\ rt.invoked = 3

\* The call has ended with the failure the decorator itself raises: the
\* last error after repeat's loop, the RetryError, the TimeoutError.
OwnRetryFailure ==
    \/ RepeatDone /\ rt.out.kind = "throw"
    \/ RetryDone /\ rt.out = ThrowOf(RetryError(rtCfg.times))
    \/ TimeLimitDone /\ rt.out = ThrowOf(TimeoutError(rtCfg.milliseconds))

\* C25: for every configuration (times or attempts of zero or less
\* included), whenever repeat, async_retry or time_limit raises its
\* exhaustion or timeout failure, the base function has been invoked at
\* least once during that call.
C25_BaseRanBeforeFailure == OwnRetryFailure => rt.invoked >= 1

\* C25 holds for time_limit and for counts of one or more.
C25_ForPositiveCounts ==
    (OwnRetryFailure /\ (TimeLimitDone \/ rtCfg.times >= 1)) => rt.invoked >= 1

\* Every one of the `attempts` attempts fails with a retryable error.
AllAttemptsFail ==
    /\ rtCfg.times >= 1
    /\ Len(rt.script) >= rtCfg.times
    /\ \A n \in 1..rtCfg.times :
           ShouldRetry(rtCfg.retryOn, BaseAttempt(rt.script, n).v)

\* C26: when every one of the `attempts` attempts of an async_retry-wrapped
\* function fails with a retryable error, the call fails with a RetryError
\* that carries both the attempt count and the last underlying error.
C26_RetryErrorCarries ==
    (RetryDone /\ AllAttemptsFail) =>
        /\ rt.out = ThrowOf(RetryError(rtCfg.times))
        /\ rt.originalError = BaseAttempt(rt.script, rtCfg.times).v

\* C26 without the last underlying error: the RetryError and its attempt
\* count.
C26_AttemptCountOnly ==
    (RetryDone /\ AllAttemptsFail) =>
        /\ rt.out = ThrowOf(RetryError(rtCfg.times))
        /\ rt.out.v.s = IndexString(rtCfg.times)
        /\ rt.lastError = BaseAttempt(rt.script, rtCfg.times).v

\* The invocations of the call that fail with an error retryOn does not list.
Unmatched ==
    {n \in 1..Len(rt.script) : ~(rtCfg.retryOn = {} \/ rt.script[n] \in rtCfg.retryOn)}

\* The invocations the call can make at all.
Allowed == IF rtCfg.times >= 0 THEN rtCfg.times ELSE 0

\* C27: in async_retry with a non-empty retryOn list, a failure whose kind
\* matches none of the listed kinds is rethrown immediately as the original
\* error with no further invocation of the base function; otherwise
\* failures are retried, the base function is invoked at most `attempts`
\* times per call, and a base function that succeeds on its k-th invocation
\* (k <= attempts) yields its value after exactly k invocations.
C27_RetryOn ==
    rtCfg.kind = "async_retry" /\ rt.pc # "idle" =>
        /\ rt.invoked <= Allowed
        /\ rt.pc = "done" =>
               /\ \A n \in Unmatched :
                      (n <= Allowed /\ \A m \in Unmatched : n <= m) =>
                          /\ rt.out = BaseAttempt(rt.script, n)
                          /\ rt.out.kind = "throw"
                          /\ rt.invoked = n
               /\ (SuccessAt <= Allowed /\ Unmatched = {}) =>
                      /\ rt.out = BaseAttempt(rt.script, SuccessAt)
                      /\ rt.out.kind = "return"
                      /\ rt.invoked = SuccessAt
        /\ rt.pc # "done" => Unmatched \cap 1..rt.invoked = {}

\* C27, its case: with retryOn [NetworkError] and three attempts, a
\* NetworkError was retried and the OtherError of the second invocation was
\* rethrown at once.
C27_Witness ==
    /\ RetryDone
    /\ rtCfg.retryOn = {"NetworkError"}
    /\ rtCfg.times = 3
    /\ Len(rt.script) >= 2
    /\ rt.script[1] = "NetworkError"
    /\ rt.script[2] = "OtherError"
    /\ rt.out = BaseAttempt(rt.script, 2)
    /\ rt.invoked = 2

\* ---------------------------------------------------------------------
\* throttle and debounce
\* ---------------------------------------------------------------------

\* The receivers (`this`) of the calls: two objects, and "none" for the call
\* of a wrapped plain function, whose `this` is undefined (the library is
\* an ES module, hence strict code in every build).
ObjectReceivers == {"a", "b"}
Receivers == ObjectReceivers \cup {"none"}

\* The TypeError of WeakMap.prototype.set for a key that is not an object.
WeakKeyError == [t |-> "TypeError", s |-> "Invalid value used as weak map key"]

\* The promise debouncedMethod returns.
Promise == [t |-> "object", s |-> "[object Promise]"]

\* The base function of the model: it returns a string made of its argument
\* or, when `raises`, throws.
DelayBase(raises, args) ==
    IF raises THEN ThrowOf([t |-> "Error", s |-> "boom"])
    ELSE Return(Str("Handled: " \o args))

\* An entry of the event log: a call of the wrapper or an invocation of the
\* base function. `call` is the index of the call event an invocation
\* belongs to; `promise` and `settled` are the state and the value of the
\* promise a call of debouncedMethod returned.
DelayEvent(ev, recv, args, at, out, call, promise, settled) ==
    [ev |-> ev, recv |-> recv, args |-> args, at |-> at, out |-> out,
     call |-> call, promise |-> promise, settled |-> settled]

\* lastCallTimes.get(this) || 0; a WeakMap has no entry for undefined.
LastCall(lastCallTimes, recv) ==
    IF recv \in ObjectReceivers THEN lastCallTimes[recv] ELSE 0

\* Mutant of ThrottleAccepts: the interval must have been exceeded.
ThrottleAcceptsAfter(t, lastCall, interval) == t - lastCall > interval

\* now - lastCall >= interval
ThrottleAccepts(t, lastCall, interval) == t - lastCall >= interval

\* throttledMethod(...args) at time t on receiver recv: the new state, the
\* outcome of the call and whether the base function was invoked.
ThrottledCall(state, config, t, recv, args) ==
    IF ThrottleAccepts(t, LastCall(state.lastCallTimes, recv), config.ms)
    THEN IF recv \in ObjectReceivers
         THEN [state |-> [state EXCEPT !.lastCallTimes[recv] = t],
               out |-> DelayBase(config.raises, args), invoked |-> TRUE]
         ELSE [state |-> state, out |-> ThrowOf(WeakKeyError), invoked |-> FALSE]
    ELSE [state |-> state, out |-> Return(Undefined), invoked |-> FALSE]

\* Mutant of ClearTimeout: the existing timer is left running.
ClearTimeoutForgotten(pending, existingTimeout) == pending

\* if (existingTimeout) clearTimeout(existingTimeout); a timer is named by
\* the index of the call that set it, 0 is no entry.
ClearTimeout(pending, existingTimeout) ==
    IF existingTimeout # 0 THEN pending \ {existingTimeout} ELSE pending

\* timeouts.get(this)
ExistingTimeout(timeouts, recv) ==
    IF recv \in ObjectReceivers THEN timeouts[recv] ELSE 0

\* debouncedMethod(...args) as call number id on receiver recv: the timer
\* is set first, then timeouts.set(this, timeout) throws inside the promise
\* executor when `this` is undefined, which rejects the promise and leaves
\* the timer running.
DebouncedCall(state, recv, id) ==
    LET cleared == ClearTimeout(state.pending, ExistingTimeout(state.timeouts, recv))
    IN IF recv \in ObjectReceivers
       THEN [state |-> [state EXCEPT !.pending = cleared \cup {id},
                                     !.timeouts[recv] = id],
             promise |-> "pending", settled |-> Undefined]
       ELSE [state |-> [state EXCEPT !.pending = cleared \cup {id}],
             promise |-> "rejected", settled |-> WeakKeyError]

DelayKinds == {"throttle", "debounce"}

\* throttle(100) and debounce(100); the tests use 100 and 50.
DelayMs == 100

DelayArgs == {"click1", "click2"}

InitDelay ==
    /\ dtCfg \in [kind : DelayKinds, ms : {DelayMs}, raises : BOOLEAN]
    /\ dtState = [lastCallTimes |-> [r \in ObjectReceivers |-> 0],
                  timeouts |-> [r \in ObjectReceivers |-> 0],
                  pending |-> {}]
    /\ dtLog = <<>>
    /\ InitLruIdle
    /\ InitCacheIdle
    /\ InitKeyIdle
    /\ InitRateIdle
    /\ InitMatrixIdle
    /\ InitValidateIdle
    /\ InitRetryIdle
    /\ InitMoreIdle

CallEvents(log) == {i \in 1..Len(log) : log[i].ev = "call"}

\* throttledMethod(...args) is called on recv.
ThrottleCall(recv, args) ==
    /\ dtCfg.kind = "throttle"
    /\ Cardinality(CallEvents(dtLog)) < MaxDelayCalls
    /\ LET r == ThrottledCall(dtState, dtCfg, now, recv, args)
           id == Len(dtLog) + 1
           call == DelayEvent("call", recv, args, now, r.out, 0, "none", Undefined)
       IN /\ dtState' = r.state
          /\ dtLog' = IF r.invoked
                      THEN dtLog \o <<call, DelayEvent("invoke", recv, args, now,
                                                      r.out, id, "none", Undefined)>>
                      ELSE Append(dtLog, call)
    /\ UNCHANGED <<dtCfg, lruVars, cacheVars, keyVars, rateVars, matrixVars,
                   validateVars, retryVars, moreVars>>

\* debouncedMethod(...args) is called on recv.
DebounceCall(recv, args) ==
    /\ dtCfg.kind = "debounce"
    /\ Cardinality(CallEvents(dtLog)) < MaxDelayCalls
    /\ LET id == Len(dtLog) + 1
           r == DebouncedCall(dtState, recv, id)
       IN /\ dtState' = r.state
          /\ dtLog' = Append(dtLog, DelayEvent("call", recv, args, now,
                                               Return(Promise), 0, r.promise, r.settled))
    /\ UNCHANGED <<dtCfg, lruVars, cacheVars, keyVars, rateVars, matrixVars,
                   validateVars, retryVars, moreVars>>

\* The setTimeout callback of call id runs:
\* resolve(originalMethod.apply(this, args)); timeouts.delete(this). A base
\* function that throws leaves both undone.
DebounceFire(id) ==
    /\ dtCfg.kind = "debounce"
    /\ id \in dtState.pending
    /\ now >= dtLog[id].at + dtCfg.ms
    /\ LET c == dtLog[id]
           result == DelayBase(dtCfg.raises, c.args)
           invoke == DelayEvent("invoke", c.recv, c.args, now, result, id,
                                "none", Undefined)
           deleted == IF c.recv \in ObjectReceivers
                      THEN [dtState.timeouts EXCEPT ![c.recv] = 0]
                      ELSE dtState.timeouts
       IN IF result.kind = "return"
          THEN /\ dtState' = [dtState EXCEPT !.pending = @ \ {id},
                                             !.timeouts = deleted]
               /\ dtLog' = Append(IF c.promise = "pending"
                                  THEN [dtLog EXCEPT ![id].promise = "resolved",
                                                     ![id].settled = result.v]
                                  ELSE dtLog, invoke)
          ELSE /\ dtState' = [dtState EXCEPT !.pending = @ \ {id}]
               /\ dtLog' = Append(dtLog, invoke)
    /\ UNCHANGED <<now, dtCfg, lruVars, cacheVars, keyVars, rlCfg, calls, rlLog,
                   timers, fired, matrixVars, validateVars, retryVars, moreVars>>

\* The time between two instants: half the interval or delay.
DelayTick == dtCfg.ms \div 2

\* Time passes; a timer that is due runs first.
DelayAdvance ==
    /\ dtCfg.kind \in DelayKinds
    /\ now < Epoch + MaxTicks * DelayTick
    /\ \A id \in dtState.pending : now < dtLog[id].at + dtCfg.ms
    /\ now' = now + DelayTick
    /\ UNCHANGED <<delayVars, lruVars, cacheVars, keyVars, rlCfg, calls, rlLog,
                   timers, fired, matrixVars, validateVars, retryVars, moreVars>>

NextDelay ==
    \/ \E recv \in Receivers, args \in DelayArgs : ThrottleCall(recv, args)
    \/ \E recv \in Receivers, args \in DelayArgs : DebounceCall(recv, args)
    \/ \E id \in 1..(2 * MaxDelayCalls) : DebounceFire(id)
    \/ DelayAdvance

SpecDelay == InitDelay /\ [][NextDelay]_vars

\* ---------------------------------------------------------------------
\* Claims about throttle and debounce
\* ---------------------------------------------------------------------

\* The calls made on receiver r, as indices of the log.
CallsOn(r) == {i \in CallEvents(dtLog) : dtLog[i].recv = r}

\* The invocations of the base function made for call i.
InvocationsOf(i) ==
    {j \in 1..Len(dtLog) : dtLog[j].ev = "invoke" /\ dtLog[j].call = i}

Invoked(i) == InvocationsOf(i) # {}

\* The accepted calls on the receiver of call i before it.
AcceptedBefore(i) == {j \in CallsOn(dtLog[i].recv) : j < i /\ Invoked(j)}

\* The last of them.
LastAcceptedBefore(i) ==
    CHOOSE j \in AcceptedBefore(i) : \A k \in AcceptedBefore(i) : k <= j

\* Every call on a receiver of R is accepted exactly when it is the first on
\* its receiver or at least the interval after the last accepted one on its
\* receiver; an accepted call invokes the base function once and gives its
\* outcome, every other call returns undefined.
ThrottleRule(R) ==
    \A r \in R : \A i \in CallsOn(r) :
        /\ Invoked(i) <=>
               \/ AcceptedBefore(i) = {}
               \/ dtLog[i].at - dtLog[LastAcceptedBefore(i)].at >= dtCfg.ms
        /\ Invoked(i) =>
               /\ Cardinality(InvocationsOf(i)) = 1
               /\ dtLog[i].out = DelayBase(dtCfg.raises, dtLog[i].args)
        /\ ~Invoked(i) => dtLog[i].out = Return(Undefined)

\* The last-accepted time kept for r is the time of the last accepted call
\* on r.
LastCallIsLastAccepted(r) ==
    LET accepted == {i \in CallsOn(r) : Invoked(i)}
    IN IF accepted = {} THEN dtState.lastCallTimes[r] = 0
       ELSE \E i \in accepted :
                /\ \A k \in accepted : k <= i
                /\ dtState.lastCallTimes[r] = dtLog[i].at

\* C28: for a throttled method on one receiver with interval I, the first
\* call invokes the base function and returns its result; a call is
\* accepted exactly when at least I has elapsed since the last accepted call
\* on that receiver; every other call returns undefined without invoking
\* the base function and without moving the last-accepted time.
C28_ThrottleInterval ==
    dtCfg.kind = "throttle" =>
        /\ ThrottleRule(ObjectReceivers)
        /\ \A r \in ObjectReceivers : LastCallIsLastAccepted(r)

\* C28, its case: on receiver a a call was accepted, a later one within the
\* interval was ignored, and one exactly the interval after the accepted
\* one was accepted again.
C28_Witness ==
    /\ dtCfg.kind = "throttle"
    /\ ~dtCfg.raises
    /\ \E i, j, k \in CallsOn("a") :
           /\ i < j /\ j < k
           /\ Invoked(i) /\ ~Invoked(j) /\ Invoked(k)
           /\ dtLog[j].at > dtLog[i].at
           /\ dtLog[k].at = dtLog[i].at + dtCfg.ms
           /\ dtLog[k].out = Return(Str("Handled: " \o dtLog[k].args))

\* The timers pending for receiver r.
PendingFor(r) == {id \in dtState.pending : dtLog[id].recv = r}

\* For every receiver of R: at most one timer is pending; a pending timer
\* belongs to the last call on the receiver; an invocation is made once,
\* for the last call made on the receiver before it, with that call's
\* arguments and no earlier than the delay after it; and a call is
\* cancelled only by a later call on the same receiver.
DebounceRule(R) ==
    \A r \in R :
        /\ Cardinality(PendingFor(r)) <= 1
        /\ \A c \in PendingFor(r) : \A d \in CallsOn(r) : d <= c
        /\ \A c \in CallsOn(r) :
               /\ Cardinality(InvocationsOf(c)) <= 1
               /\ \A j \in InvocationsOf(c) :
                      /\ dtLog[j].recv = r
                      /\ dtLog[j].args = dtLog[c].args
                      /\ dtLog[j].at >= dtLog[c].at + dtCfg.ms
                      /\ \A d \in CallsOn(r) : ~(c < d /\ d < j)
               /\ (c \notin dtState.pending /\ ~Invoked(c)) =>
                      \E d \in CallsOn(r) : d > c

\* No call made with no receiver object raised the TypeError of the WeakMap.
NoReceiverError ==
    \A i \in CallsOn("none") :
        /\ dtLog[i].out # ThrowOf(WeakKeyError)
        /\ dtLog[i].settled # WeakKeyError

\* C29: debounce and throttle state is keyed per receiver: calls on one
\* receiver object never cancel, delay or suppress calls on a different
\* receiver object, and the calls of a wrapped plain function (invoked with
\* no receiver object) all share one implicit receiver, so they are
\* debounced or throttled against each other exactly as calls on a single
\* object are, without raising.
C29_KeyedPerReceiver ==
    /\ dtCfg.kind = "throttle" => ThrottleRule(Receivers) /\ NoReceiverError
    /\ dtCfg.kind = "debounce" => DebounceRule(Receivers) /\ NoReceiverError

\* C29 for receiver objects only: whatever is called on other receivers
\* (objects or none), the calls on an object follow the rule of their own
\* receiver.
C29_ObjectReceiversOnly ==
    /\ dtCfg.kind = "throttle" => ThrottleRule(ObjectReceivers)
    /\ dtCfg.kind = "debounce" => DebounceRule(ObjectReceivers)

\* Call c is the last of its burst: no later call on its receiver follows
\* the burst by less than the delay. (The next call on the receiver is the
\* one that counts, the times of the log never decrease.)
LastOfBurst(c) ==
    \A d \in CallsOn(dtLog[c].recv) : d > c => dtLog[d].at >= dtLog[c].at + dtCfg.ms

\* C30, as claimed: for a debounced method on one receiver with delay D, any
\* burst of calls in which each call follows the previous one by less than
\* D results in exactly one invocation of the base function, made with the
\* arguments of the last call of the burst and no earlier than D after that
\* last call; at every moment at most one scheduled invocation is pending
\* per receiver.
C30_BurstInvokedOnce ==
    dtCfg.kind = "debounce" =>
        \A r \in ObjectReceivers :
            /\ Cardinality(PendingFor(r)) <= 1
            /\ \A c \in CallsOn(r) :
                   /\ ~LastOfBurst(c) => ~Invoked(c)
                   /\ (LastOfBurst(c) /\ c \notin dtState.pending) =>
                          /\ Cardinality(InvocationsOf(c)) = 1
                          /\ \A j \in InvocationsOf(c) :
                                 /\ dtLog[j].args = dtLog[c].args
                                 /\ dtLog[j].at >= dtLog[c].at + dtCfg.ms

\* C30, amended: a call on a receiver object is invoked at most once, with
\* its own arguments, no earlier than D after it, and only if no later call
\* on the receiver came before its timer ran; a call followed by another
\* within less than D is never invoked; a call that is neither pending nor
\* invoked was replaced by a later call on its receiver; at most one
\* scheduled invocation is pending per receiver.
C30_LastCallSurvives ==
    dtCfg.kind = "debounce" =>
        /\ DebounceRule(ObjectReceivers)
        /\ \A r \in ObjectReceivers : \A c \in CallsOn(r) :
               ~LastOfBurst(c) => ~Invoked(c)

\* C30, its case: three calls on receiver a less than D apart, the first
\* and the last with different arguments; only the last was invoked, and
\* its promise is resolved with the result for its arguments.
C30_Witness ==
    /\ dtCfg.kind = "debounce"
    /\ \E c1, c2, c3 \in CallsOn("a") :
           /\ c1 < c2 /\ c2 < c3
           /\ dtLog[c2].at > dtLog[c1].at
           /\ dtLog[c3].at < dtLog[c2].at + dtCfg.ms
           /\ dtLog[c3].args # dtLog[c1].args
           /\ ~Invoked(c1) /\ ~Invoked(c2) /\ Invoked(c3)
           /\ dtLog[c3].promise = "resolved"
           /\ dtLog[c3].settled = Str("Handled: " \o dtLog[c3].args)

\* The calls have stopped and every scheduled invocation has run: no timer
\* is left, so nothing can settle a promise any more.
Quiet == dtState.pending = {}

\* C31: every call to a debounced function returns a deferred result, and
\* that deferred result is resolved once the last-scheduled invocation has
\* run: no deferred result returned by a debounced call stays pending
\* forever once the calls stop. (Stated for calls on receiver objects and a
\* base function that returns.)
C31_PromisesResolve ==
    (dtCfg.kind = "debounce" /\ ~dtCfg.raises /\ Quiet) =>
        \A r \in ObjectReceivers : \A c \in CallsOn(r) :
            /\ dtLog[c].out = Return(Promise)
            /\ dtLog[c].promise = "resolved"

\* C31 for the last call on each receiver object only: its promise is
\* resolved with the result for its arguments.
C31_LastCallResolves ==
    (dtCfg.kind = "debounce" /\ ~dtCfg.raises /\ Quiet) =>
        \A r \in ObjectReceivers : \A c \in CallsOn(r) :
            /\ dtLog[c].out = Return(Promise)
            /\ (\A d \in CallsOn(r) : d <= c) =>
                   /\ dtLog[c].promise = "resolved"
                   /\ dtLog[c].settled = Str("Handled: " \o dtLog[c].args)

\* ---------------------------------------------------------------------
\* protect
\* ---------------------------------------------------------------------

\* protect(level = 'normal', options = {}): the level the decorator works
\* with when it is given no level.
LevelGiven(level) == IF level = Undefined THEN Str("normal") ELSE level

\* Mutant of ProtectedCall: the failure is rethrown at every level.
ProtectedCallRethrows(level, silent, args, result) ==
    [out |-> result,
     copied |-> ProtectionLevel(LevelGiven(level)) >= 2
                /\ \E i \in 1..Len(args) : args[i] = Obj,
     frozen |-> FALSE, logged |-> result.kind = "throw" /\ ~silent]

\* protectedMethod(...args), the base function giving `result`: at level 2
\* and above the object arguments are replaced by shallow copies, at level
\* 3 an object result is frozen; a failure is logged unless silent, and
\* rethrown at level 3 only.
ProtectedCall(level, silent, args, result) ==
    LET protectionLevel == ProtectionLevel(LevelGiven(level))
        copied == protectionLevel >= 2 /\ \E i \in 1..Len(args) : args[i] = Obj
    IN IF result.kind = "return"
       THEN [out |-> result, copied |-> copied,
             frozen |-> protectionLevel >= 3 /\ result.v = Obj, logged |-> FALSE]
       ELSE [out |-> IF protectionLevel >= 3 THEN result ELSE Return(Undefined),
             copied |-> copied, frozen |-> FALSE, logged |-> ~silent]

\* The levels protect is given: the three it knows, one it does not, none.
Levels == {Str("loose"), Str("normal"), Str("strict"), Str("paranoid"), Undefined}

ProtectArgs == {<<>>, <<Num("5")>>, <<Obj>>}

\* What the base function does with a call.
ProtectResults ==
    {Return(Num("5")), Return(Obj), Return(Undefined), Return(Null),
     ThrowOf([t |-> "Error", s |-> "No data provided"])}

InitProtect ==
    /\ ptCfg \in [level : Levels, silent : BOOLEAN]
    /\ pt = [pc |-> "idle"]
    /\ InitLruIdle
    /\ InitCacheIdle
    /\ InitKeyIdle
    /\ InitRateIdle
    /\ InitMatrixIdle
    /\ InitValidateIdle
    /\ InitRetryIdle
    /\ InitDelayIdle
    /\ InitFactoryIdle
    /\ InitMetricsIdle
    /\ InitSharedIdle

\* protectedMethod(...args); protect keeps no state between calls.
ProtectCall(args, result) ==
    /\ pt.pc = "idle"
    /\ LET r == ProtectedCall(ptCfg.level, ptCfg.silent, args, result)
       IN pt' = [pc |-> "done", args |-> args, result |-> result, out |-> r.out,
                 copied |-> r.copied, frozen |-> r.frozen, logged |-> r.logged]
    /\ UNCHANGED <<ptCfg, lruVars, cacheVars, keyVars, rateVars, matrixVars,
                   validateVars, retryVars, delayVars, factoryVars, metricsVars, sh>>

NextProtect == \E args \in ProtectArgs, result \in ProtectResults : ProtectCall(args, result)

SpecProtect == InitProtect /\ [][NextProtect]_vars

\* C32: when the base function of a protect-wrapped function raises, at
\* levels loose and normal the wrapper swallows the error and returns
\* undefined, and at level strict it rethrows the same error; when the base
\* function returns normally its result is returned at every level.
C32_ProtectLevels ==
    pt.pc = "done" =>
        /\ (pt.result.kind = "throw" /\ ptCfg.level \in {Str("loose"), Str("normal")}) =>
               pt.out = Return(Undefined)
        /\ (pt.result.kind = "throw" /\ ptCfg.level = Str("strict")) =>
               pt.out = pt.result
        /\ pt.result.kind = "return" => pt.out = pt.result

\* C32, its case: at level normal the base function raised and the caller
\* got undefined, the failure having been logged.
C32_Witness ==
    /\ pt.pc = "done"
    /\ ptCfg.level = Str("normal")
    /\ pt.result.kind = "throw"
    /\ pt.out = Return(Undefined)
    /\ pt.logged

IsFalsy(v) == v = Undefined \/ v \in Falsy

\* The initial metricsData, and what clearMetrics assigns. lastCalled is
\* TRUE once a Date was stored.
NoMetrics ==
    [calls |-> 0, errors |-> 0, totalDuration |-> 0, lastCalled |-> FALSE,
     durations |-> <<>>]

\* updateMetrics(duration, error = null); the duration is never undefined.
UpdateMetrics(data, track, duration, error) ==
    [calls |-> IF "calls" \in track THEN data.calls + 1 ELSE data.calls,
     errors |-> IF ~IsFalsy(error) /\ "errors" \in track THEN data.errors + 1
                ELSE data.errors,
     totalDuration |-> IF "duration" \in track THEN data.totalDuration + duration
                       ELSE data.totalDuration,
     lastCalled |-> TRUE,
     durations |-> IF "duration" \in track THEN Append(data.durations, duration)
                   ELSE data.durations]

\* wrappedMethod(...args), the base function giving `result` after
\* `duration` ms: the failure is handed to updateMetrics and rethrown.
MetricsCall(data, track, result, duration) ==
    [data |-> UpdateMetrics(data, track, duration,
                            IF result.kind = "throw" THEN result.v ELSE Null),
     out |-> result]

\* A quotient of getMetrics, kept exact as numerator and denominator.
Ratio(num, den) == [num |-> num, den |-> den]

\* wrappedMethod.getMetrics()
GetMetrics(data) ==
    [calls |-> data.calls, errors |-> data.errors,
     totalDuration |-> data.totalDuration, lastCalled |-> data.lastCalled,
     durations |-> data.durations,
     averageDuration |-> IF data.calls > 0 THEN Ratio(data.totalDuration, data.calls)
                         ELSE Ratio(0, 1),
     successRate |-> IF data.calls > 0
                     THEN Ratio((data.calls - data.errors) * 100, data.calls)
                     ELSE Ratio(100, 1)]

\* The names config.track is made of.
Tracked == {"calls", "duration", "errors"}

\* What the base function does with a call: it returns, throws an Error, or
\* throws undefined (as a function wrapped by repeat(0) does).
MetricsResults ==
    {Return(Str("Processed: data1")),
     ThrowOf([t |-> "Error", s |-> "Processing failed"]),
     ThrowOf(Undefined)}

\* performance.now() - startTime
MetricsDurations == {0, 3}

InitMetrics ==
    /\ mtCfg \in [track : SUBSET Tracked]
    /\ mt = [pc |-> "run", data |-> NoMetrics, ops |-> 0, made |-> 0, raised |-> 0,
             falsy |-> 0, op |-> "new", result |-> Return(Undefined), out |-> Return(Undefined)]
    /\ InitLruIdle
    /\ InitCacheIdle
    /\ InitKeyIdle
    /\ InitRateIdle
    /\ InitMatrixIdle
    /\ InitValidateIdle
    /\ InitRetryIdle
    /\ InitDelayIdle
    /\ InitProtectIdle
    /\ InitFactoryIdle
    /\ InitSharedIdle

\* wrappedMethod(...args); made, raised and falsy count the calls, the
\* failed calls and the calls that raised a falsy value since the
\* construction or the last clearMetrics (observers).
MetricsCallStep(result, duration) ==
    /\ mt.pc = "run"
    /\ mt.ops < MaxMetricOps
    /\ LET r == MetricsCall(mt.data, mtCfg.track, result, duration)
       IN mt' = [mt EXCEPT !.data = r.data, !.ops = @ + 1, !.made = @ + 1,
                           !.raised = IF result.kind = "throw" THEN @ + 1 ELSE @,
                           !.falsy = IF result.kind = "throw" /\ IsFalsy(result.v)
                                     THEN @ + 1 ELSE @,
                           !.op = "call", !.result = result, !.out = r.out]
    /\ UNCHANGED <<mtCfg, lruVars, cacheVars, keyVars, rateVars, matrixVars,
                   validateVars, retryVars, delayVars, protectVars, factoryVars, sh>>

\* wrappedMethod.clearMetrics()
ClearMetrics ==
    /\ mt.pc = "run"
    /\ mt.ops < MaxMetricOps
    /\ mt' = [mt EXCEPT !.data = NoMetrics, !.ops = @ + 1, !.made = 0, !.raised = 0,
                        !.falsy = 0, !.op = "clear", !.result = Return(Undefined),
                        !.out = Return(Undefined)]
    /\ UNCHANGED <<mtCfg, lruVars, cacheVars, keyVars, rateVars, matrixVars,
                   validateVars, retryVars, delayVars, protectVars, factoryVars, sh>>

NextMetrics ==
    \/ \E result \in MetricsResults, duration \in MetricsDurations :
           MetricsCallStep(result, duration)
    \/ ClearMetrics

SpecMetrics == InitMetrics /\ [][NextMetrics]_vars

\* ---------------------------------------------------------------------
\* Claims about metrics
\* ---------------------------------------------------------------------

\* The snapshot reports n calls of which e raised.
Reports(snapshot, n, e) ==
    /\ snapshot.calls = n
    /\ snapshot.errors = e
    /\ IF n = 0 THEN snapshot.successRate.num = 100 * snapshot.successRate.den
       ELSE snapshot.successRate.num * n = (n - e) * 100 * snapshot.successRate.den

\* clearMetrics has just set the counters to zero.
Cleared ==
    mt.op = "clear" =>
        /\ mt.data.calls = 0
        /\ mt.data.errors = 0
        /\ mt.data.totalDuration = 0

\* C34: for a metrics-wrapped function tracking calls, duration and errors,
\* after any sequence of n calls of which e raised, getMetrics() reports
\* calls = n, errors = e and successRate = (n-e)/n*100 (100 when n = 0),
\* every base error having been rethrown unchanged; the counters are never
\* reset except by clearMetrics, which sets calls, errors and totalDuration
\* to zero.
C34_MetricsCounts ==
    (mt.pc = "run" /\ mtCfg.track = Tracked) =>
        /\ Reports(GetMetrics(mt.data), mt.made, mt.raised)
        /\ mt.op = "call" => mt.out = mt.result
        /\ Cleared

\* C34 for base functions that raise truthy values: no call has raised a
\* falsy value since the construction or the last clearMetrics.
C34_ForTruthyErrors ==
    (mt.pc = "run" /\ mtCfg.track = Tracked /\ mt.falsy = 0) =>
        /\ Reports(GetMetrics(mt.data), mt.made, mt.raised)
        /\ mt.op = "call" => mt.out = mt.result
        /\ Cleared

\* C39: for every `track` subset and every sequence of calls and
\* clearMetrics operations on a metrics-wrapped function, the snapshot
\* satisfies errors <= calls and 0 <= successRate <= 100, and successRate is
\* below 100 whenever errors > 0.
C39_SnapshotBounds ==
    mt.pc = "run" =>
        LET snapshot == GetMetrics(mt.data)
        IN /\ snapshot.errors <= snapshot.calls
           /\ 0 <= snapshot.successRate.num
           /\ snapshot.successRate.num <= 100 * snapshot.successRate.den
           /\ snapshot.errors > 0 =>
                  snapshot.successRate.num < 100 * snapshot.successRate.den

\* C39 for the track subsets that hold 'calls'.
C39_WhenCallsTracked ==
    (mt.pc = "run" /\ "calls" \in mtCfg.track) =>
        LET snapshot == GetMetrics(mt.data)
        IN /\ snapshot.errors <= snapshot.calls
           /\ 0 <= snapshot.successRate.num
           /\ snapshot.successRate.num <= 100 * snapshot.successRate.den
           /\ snapshot.errors > 0 =>
                  snapshot.successRate.num < 100 * snapshot.successRate.den

\* ---------------------------------------------------------------------
\* createUniversalDecorator
\* ---------------------------------------------------------------------

\* A function, and the function decoratorLogic returns.
Fn == [t |-> "function", s |-> "fn"]
Wrapped == [t |-> "function", s |-> "wrapped"]

\* An object, named by its source text.
ObjectOf(text) == [t |-> "object", s |-> text]

\* target.descriptor is truthy: the object carries a descriptor.
HasDescriptor(target) ==
    /\ target.t = "object"
    /\ target.s \in {"{descriptor: {}}", "{descriptor: {value: 0}}",
                     "{descriptor: {value: 5}}", "{descriptor: {value: fn}}"}

\* target.descriptor.value
TargetValue(target) ==
    IF target.s = "{descriptor: {value: 0}}" THEN Num("0")
    ELSE IF target.s = "{descriptor: {value: 5}}" THEN Num("5")
    ELSE IF target.s = "{descriptor: {value: fn}}" THEN Fn
    ELSE Undefined

\* descriptor.value
DescriptorValue(descriptor) ==
    IF descriptor = ObjectOf("{value: 5}") THEN Num("5")
    ELSE IF descriptor = ObjectOf("{value: fn}") THEN Fn
    ELSE Undefined

\* Mutant of Decorate: the legacy branch takes any truthy descriptor value.
DecorateAnyLegacyValue(target, propertyKey, descriptor) ==
    IF ~IsFalsy(target) /\ target.t = "object" /\ HasDescriptor(target)
       /\ ~IsFalsy(TargetValue(target))
    THEN [branch |-> "modern", out |-> ObjectOf("{descriptor: {value: wrapped}}"),
          warned |-> FALSE]
    ELSE IF ~IsFalsy(descriptor) /\ ~IsFalsy(DescriptorValue(descriptor))
    THEN [branch |-> "legacy", out |-> ObjectOf("{value: wrapped}"), warned |-> FALSE]
    ELSE IF target.t = "function" /\ IsFalsy(propertyKey) /\ IsFalsy(descriptor)
    THEN [branch |-> "direct", out |-> Wrapped, warned |-> FALSE]
    ELSE [branch |-> "unsupported", out |-> target, warned |-> TRUE]

\* function(target, propertyKey, descriptor) of createUniversalDecorator:
\* the modern shape, the legacy shape, the function alone, or a warning and
\* the target as it is.
Decorate(target, propertyKey, descriptor) ==
    IF ~IsFalsy(target) /\ target.t = "object" /\ HasDescriptor(target)
       /\ ~IsFalsy(TargetValue(target))
    THEN [branch |-> "modern", out |-> ObjectOf("{descriptor: {value: wrapped}}"),
          warned |-> FALSE]
    ELSE IF ~IsFalsy(descriptor) /\ ~IsFalsy(DescriptorValue(descriptor))
            /\ DescriptorValue(descriptor).t = "function"
    THEN [branch |-> "legacy", out |-> ObjectOf("{value: wrapped}"), warned |-> FALSE]
    ELSE IF target.t = "function" /\ IsFalsy(propertyKey) /\ IsFalsy(descriptor)
    THEN [branch |-> "direct", out |-> Wrapped, warned |-> FALSE]
    ELSE [branch |-> "unsupported", out |-> target, warned |-> TRUE]

Targets ==
    {Undefined, Null, Num("5"), Str("x"), Fn, ObjectOf("{}"),
     ObjectOf("{descriptor: {}}"), ObjectOf("{descriptor: {value: 0}}"),
     ObjectOf("{descriptor: {value: 5}}"), ObjectOf("{descriptor: {value: fn}}")}

PropertyKeys == {Undefined, Str("method")}

Descriptors ==
    {Undefined, Null, ObjectOf("{}"), ObjectOf("{value: 5}"), ObjectOf("{value: fn}")}

InitFactory ==
    /\ fcIn \in [target : Targets, propertyKey : PropertyKeys, descriptor : Descriptors]
    /\ fcOut = [pc |-> "idle"]
    /\ InitLruIdle
    /\ InitCacheIdle
    /\ InitKeyIdle
    /\ InitRateIdle
    /\ InitMatrixIdle
    /\ InitValidateIdle
    /\ InitRetryIdle
    /\ InitDelayIdle
    /\ InitProtectIdle
    /\ InitMetricsIdle
    /\ InitSharedIdle

\* decorator(target, propertyKey, descriptor)
Apply ==
    /\ fcOut.pc = "idle"
    /\ LET r == Decorate(fcIn.target, fcIn.propertyKey, fcIn.descriptor)
       IN fcOut' = [pc |-> "done", branch |-> r.branch, out |-> r.out,
                    warned |-> r.warned, raised |-> FALSE]
    /\ UNCHANGED <<fcIn, lruVars, cacheVars, keyVars, rateVars, matrixVars,
                   validateVars, retryVars, delayVars, protectVars, metricsVars, sh>>

NextFactory == Apply

SpecFactory == InitFactory /\ [][NextFactory]_vars

\* The input is a plain function alone: no property key and no descriptor
\* come with it (undefined or null).
FunctionAlone ==
    /\ fcIn.target.t = "function"
    /\ IsNullish(fcIn.propertyKey)
    /\ IsNullish(fcIn.descriptor)

\* The input is a modern descriptor object: the target is an object that
\* carries a descriptor with a value.
ModernShape ==
    fcIn.target \in {ObjectOf("{descriptor: {value: 0}}"),
                     ObjectOf("{descriptor: {value: 5}}"),
                     ObjectOf("{descriptor: {value: fn}}")}

\* The input is a legacy descriptor with a function value.
LegacyShape == fcIn.descriptor = ObjectOf("{value: fn}")

\* C35: when a decorator produced by the wrapper factory is applied to an
\* input that is neither a plain function alone nor a recognised
\* method-wrapping shape (modern descriptor object, or legacy descriptor
\* with a function value), it returns the original first input unchanged
\* and never raises.
C35_UnsupportedInput ==
    (fcOut.pc = "done" /\ ~FunctionAlone /\ ~ModernShape /\ ~LegacyShape) =>
        /\ fcOut.out = fcIn.target
        /\ ~fcOut.raised

\* C35, its case: the decorator was applied to a function together with a
\* descriptor whose value is not a function, and gave the function back.
C35_Witness ==
    /\ fcOut.pc = "done"
    /\ fcIn.target = Fn
    /\ fcIn.descriptor = ObjectOf("{value: 5}")
    /\ fcOut.branch = "unsupported"
    /\ fcOut.out = Fn
    /\ fcOut.warned

\* ---------------------------------------------------------------------
\* Deferred invocations: debounce, and rate_limit with strategy wait
\* ---------------------------------------------------------------------

\* A function wrapped by debounce, or one wrapped by rate_limit with
\* strategy wait.
InitDeferred ==
    \/ InitDelay /\ dtCfg.kind = "debounce"
    \/ InitRate /\ rlCfg.strategy = "wait"

NextDeferred ==
    \/ dtCfg.kind = "debounce" /\ \E recv \in Receivers, args \in DelayArgs :
                                      DebounceCall(recv, args)
    \/ dtCfg.kind = "debounce" /\ \E id \in 1..(2 * MaxDelayCalls) : DebounceFire(id)
    \/ dtCfg.kind = "debounce" /\ DelayAdvance
    \/ rlCfg.strategy = "wait" /\ \E args \in RlArgs : RlCall(args)
    \/ rlCfg.strategy = "wait" /\ \E i \in 1..MaxRlCalls : TimerFire(i)
    \/ rlCfg.strategy = "wait" /\ Advance

SpecDeferred == InitDeferred /\ [][NextDeferred]_vars

\* The scheduled invocations of debounce made for calls on receiver
\* objects in which the base function raised.
FailedInvocations ==
    {j \in 1..Len(dtLog) : /\ dtLog[j].ev = "invoke"
                           /\ dtLog[j].recv \in ObjectReceivers
                           /\ dtLog[j].out.kind = "throw"}

\* C36: when the base function raises during a deferred invocation (the
\* scheduled invocation of debounce, or the deferred invocation of
\* rate_limit strategy wait), the failure surfaces to the caller: the
\* deferred result returned for that call is rejected with the error rather
\* than staying pending.
C36_DeferredFailureSurfaces ==
    /\ dtCfg.kind = "debounce" =>
           \A j \in FailedInvocations :
               /\ dtLog[dtLog[j].call].promise = "rejected"
               /\ dtLog[dtLog[j].call].settled = dtLog[j].out.v
    /\ rlCfg.strategy = "wait" =>
           \A i \in 1..Len(fired) :
               fired[i].out.kind = "throw" => fired[i].promise = "rejected"

\* C36 turned round, as the code has it: the deferred result of a call
\* whose deferred invocation raised stays pending, and the one of a call
\* whose deferred invocation returned is resolved.
C36_FailureStaysPending ==
    /\ dtCfg.kind = "debounce" =>
           \A j \in 1..Len(dtLog) :
               (dtLog[j].ev = "invoke" /\ dtLog[j].recv \in ObjectReceivers) =>
                   dtLog[dtLog[j].call].promise =
                       IF dtLog[j].out.kind = "throw" THEN "pending" ELSE "resolved"
    /\ rlCfg.strategy = "wait" =>
           \A i \in 1..Len(fired) :
               fired[i].promise =
                   IF fired[i].out.kind = "throw" THEN "pending" ELSE "resolved"

\* ---------------------------------------------------------------------
\* super_matrix({cache, debounce}): cachedMethod around debouncedMethod
\* ---------------------------------------------------------------------

\* The promise the debounced call number id returned, as the value the
\* cache stores.
PromiseOf(id) == [t |-> "object", s |-> "[object Promise] " \o IndexString(id)]

\* The call that created the promise p.
CreatorOf(p) == CHOOSE i \in 1..Len(dtLog) : PromiseOf(i) = p

\* super_matrix({cache: 'balanced', debounce: DelayMs}) around the base
\* function: debounce is applied first, super_cache last.
InitCachedDebounce ==
    /\ dtCfg \in [kind : {"debounce"}, ms : {DelayMs}, raises : BOOLEAN]
    /\ dtState = [lastCallTimes |-> [r \in ObjectReceivers |-> 0],
                  timeouts |-> [r \in ObjectReceivers |-> 0],
                  pending |-> {}]
    /\ dtLog = <<>>
    /\ lru = UniversalLRU(MatrixCacheSize(ValidConfig("cache")))
    /\ touched = <<>>
    /\ nHit = 0
    /\ nMiss = 0
    /\ last = [op |-> "new", key |-> NoKey, val |-> Undefined, ret |-> Undefined,
               pre |-> lru, oldest |-> NoKey]
    /\ InitCacheIdle
    /\ InitKeyIdle
    /\ InitRateIdle
    /\ InitMatrixIdle
    /\ InitValidateIdle
    /\ InitRetryIdle
    /\ InitMoreIdle

\* wrapped(...args) on recv: cachedMethod looks the arguments up and, on a
\* miss, calls debouncedMethod with the same receiver and stores the
\* promise it returns. The event of a hit names in `call` the call that
\* created the promise handed out.
CachedDebounceCall(recv, args) ==
    /\ dtCfg.kind = "debounce"
    /\ Cardinality(CallEvents(dtLog)) < MaxDelayCalls
    /\ LET id == Len(dtLog) + 1
           list == <<Str(args)>>
           c == CachedMethod(lru, [a \in {list} |-> Return(PromiseOf(id))], list)
           r == DebouncedCall(dtState, recv, id)
       IN /\ lru' = c.lru
          /\ dtState' = IF c.invoked THEN r.state ELSE dtState
          /\ dtLog' = Append(dtLog,
                 IF c.invoked
                 THEN DelayEvent("call", recv, args, now, c.out, 0, r.promise, r.settled)
                 ELSE DelayEvent("call", recv, args, now, c.out, CreatorOf(c.out.v),
                                 "none", Undefined))
    /\ UNCHANGED <<dtCfg, touched, nHit, nMiss, last, cacheVars, keyVars, rateVars,
                   matrixVars, validateVars, retryVars, moreVars>>

NextCachedDebounce ==
    \/ \E recv \in ObjectReceivers, args \in DelayArgs : CachedDebounceCall(recv, args)
    \/ \E id \in 1..(2 * MaxDelayCalls) : DebounceFire(id)
    \/ DelayAdvance

SpecCachedDebounce == InitCachedDebounce /\ [][NextCachedDebounce]_vars

\* The calls that were handed a promise from the cache.
CacheHits == {i \in CallEvents(dtLog) : dtLog[i].call # 0}

\* The scheduled invocation of call c was cancelled: it is neither pending
\* nor made.
Cancelled(c) == c \notin dtState.pending /\ ~Invoked(c)

\* C37: in a function built by super_matrix with both cache and debounce
\* configured, every deferred result handed to a caller eventually
\* resolves once calls stop: a call never receives from the cache a
\* deferred result whose scheduled invocation was cancelled by a later call
\* with different arguments.
C37_CachedPromisesResolve ==
    \A i \in CacheHits :
        /\ ~Cancelled(dtLog[i].call)
        /\ (Quiet /\ ~dtCfg.raises) => dtLog[dtLog[i].call].promise = "resolved"

\* What holds of the promises handed out from the cache: each is the
\* promise of the first call made with the same arguments, whatever
\* receiver that call had and whether or not its invocation was cancelled.
C37_FirstPromiseOfArguments ==
    \A i \in CacheHits :
        /\ dtLog[i].call < i
        /\ dtLog[dtLog[i].call].args = dtLog[i].args
        /\ dtLog[i].out = dtLog[dtLog[i].call].out
        /\ \A j \in CallEvents(dtLog) :
               (j < dtLog[i].call) => dtLog[j].args # dtLog[i].args

\* ---------------------------------------------------------------------
\* Claims about super_matrix with repeat and protect
\* ---------------------------------------------------------------------

\* super_matrix was given repeat and protect, and nothing else.
RepeatAndProtect ==
    /\ ~WrapError(mxOpts)
    /\ {k \in MatrixKeys : Applies(mxOpts[k])} = {"repeat", "protect"}
    /\ mxOpts.repeat = ValidConfig("repeat")

\* C38: in a function built by super_matrix with repeat (times >= k) and
\* protect at any level configured, a base function that raises on its
\* first k-1 invocations and succeeds on the k-th returns the success value
\* after exactly k base invocations.
C38_RepeatWithProtect ==
    RepeatAndProtect =>
        \A i \in 1..Len(mxLog) :
            mxLog[i].fails + 1 <= ToNumber(mxOpts.repeat) =>
                /\ mxLog[i].out = base[mxLog[i].args]
                /\ mxLog[i].baseRuns = mxLog[i].fails + 1

\* C38 at level strict only.
C38_AtLevelStrict ==
    (RepeatAndProtect /\ ProtectionLevel(mxOpts.protect) >= 3) =>
        \A i \in 1..Len(mxLog) :
            mxLog[i].fails + 1 <= ToNumber(mxOpts.repeat) =>
                /\ mxLog[i].out = base[mxLog[i].args]
                /\ mxLog[i].baseRuns = mxLog[i].fails + 1

\* ---------------------------------------------------------------------
\* super_cache: one base method wrapped twice, called on several receivers
\* ---------------------------------------------------------------------

\* The two functions made by two applications of super_cache() to the same
\* base method with no parameters (type balanced, maxsize 128); each
\* application runs `new UniversalLRU(cacheSize)`.
WrappedFns == {"f1", "f2"}

\* What the base method does when it runs with `this` = recv: it returns a
\* value made of the receiver and the arguments, returns undefined, or
\* raises.
Behaviours == {"value", "undefined", "throw"}

ResultOn(recv, args) == Str(recv \o ":" \o Join(args, ","))

\* originalMethod.apply(this, args) for `this` = recv.
ApplyOn(behaviour, recv) ==
    [a \in CallArgs |->
        IF behaviour[recv] = "value" THEN Return(ResultOn(recv, a))
        ELSE IF behaviour[recv] = "undefined" THEN Return(Undefined)
        ELSE Throw]

\* cacheSize of super_cache() called with no parameters.
DefaultCacheSize == SuperCacheSize([given |-> FALSE, v |-> ""], NotGiven)

InitShared ==
    /\ sh \in {[pc |-> "run", behaviour |-> b,
                caches |-> [f \in WrappedFns |-> UniversalLRU(DefaultCacheSize)],
                log |-> <<>>] : b \in [ObjectReceivers -> Behaviours]}
    /\ InitLruIdle
    /\ InitCacheIdle
    /\ InitKeyIdle
    /\ InitRateIdle
    /\ InitMatrixIdle
    /\ InitValidateIdle
    /\ InitRetryIdle
    /\ InitDelayIdle
    /\ InitProtectIdle
    /\ InitFactoryIdle
    /\ InitMetricsIdle

\* f.call(recv, ...args) for one of the two wrapped functions.
SharedCall(f, recv, args) ==
    /\ sh.pc = "run"
    /\ Len(sh.log) < MaxSharedCalls
    /\ LET c == CachedMethod(sh.caches[f], ApplyOn(sh.behaviour, recv), args)
           after == [sh.caches EXCEPT ![f] = c.lru]
       IN sh' = [sh EXCEPT !.caches = after,
                           !.log = Append(@, [op |-> "call", fn |-> f, recv |-> recv,
                                              args |-> args, invoked |-> c.invoked,
                                              out |-> c.out, before |-> sh.caches,
                                              after |-> after])]
    /\ UNCHANGED <<lruVars, cacheVars, keyVars, rateVars, matrixVars,
                   validateVars, retryVars, delayVars, protectVars, factoryVars,
                   metricsVars>>

\* f.cache_clear() for one of the two wrapped functions.
SharedClear(f) ==
    /\ sh.pc = "run"
    /\ Len(sh.log) < MaxSharedCalls
    /\ LET after == [sh.caches EXCEPT ![f] = LruClear(@)]
       IN sh' = [sh EXCEPT !.caches = after,
                           !.log = Append(@, [op |-> "clear", fn |-> f, recv |-> "none",
                                              args |-> <<>>, invoked |-> FALSE,
                                              out |-> Return(Undefined),
                                              before |-> sh.caches, after |-> after])]
    /\ UNCHANGED <<lruVars, cacheVars, keyVars, rateVars, matrixVars,
                   validateVars, retryVars, delayVars, protectVars, factoryVars,
                   metricsVars>>

NextShared ==
    \/ \E f \in WrappedFns, recv \in ObjectReceivers, args \in CallArgs :
           SharedCall(f, recv, args)
    \/ \E f \in WrappedFns : SharedClear(f)

SpecShared == InitShared /\ [][NextShared]_vars

\* Call j is the next call of the same wrapped function with the arguments
\* of call i, made on another receiver, with no cache_clear of that function
\* in between.
NextOnOtherReceiver(i, j) ==
    /\ i < j
    /\ sh.log[i].op = "call" /\ sh.log[j].op = "call"
    /\ sh.log[i].fn = sh.log[j].fn
    /\ sh.log[i].args = sh.log[j].args
    /\ sh.log[i].recv # sh.log[j].recv
    /\ sh.log[i].out.kind = "return"
    /\ \A k \in (i + 1)..(j - 1) :
           sh.log[k].fn = sh.log[i].fn =>
               sh.log[k].op = "call" /\ sh.log[k].args # sh.log[i].args

\* No operation on one wrapped function touches the entries or the counters
\* of the other one.
OwnCacheOnly ==
    \A i \in 1..Len(sh.log) : \A g \in WrappedFns \ {sh.log[i].fn} :
        sh.log[i].after[g] = sh.log[i].before[g]

\* C40: the cache of a super_cache-wrapped method belongs to the wrapped
\* function and is keyed by the arguments only: after a call that returned
\* on one receiver, the next call with the same arguments on another
\* receiver is a hit, returns the first receiver's result and does not
\* invoke the base method; and an operation on one wrapped function leaves
\* the entries and counters of a separately wrapped function as they were.
C40_SharedAcrossReceivers ==
    sh.pc = "run" =>
        /\ \A i, j \in 1..Len(sh.log) : NextOnOtherReceiver(i, j) =>
               /\ ~sh.log[j].invoked
               /\ sh.log[j].out = sh.log[i].out
               /\ sh.log[j].after[sh.log[j].fn].hits
                      = sh.log[j].before[sh.log[j].fn].hits + 1
        /\ OwnCacheOnly

\* The same statement for first calls whose result is not undefined.
C40_ForDefinedResults ==
    sh.pc = "run" =>
        /\ \A i, j \in 1..Len(sh.log) :
               NextOnOtherReceiver(i, j) /\ sh.log[i].out.v # Undefined =>
                   /\ ~sh.log[j].invoked
                   /\ sh.log[j].out = sh.log[i].out
                   /\ sh.log[j].after[sh.log[j].fn].hits
                          = sh.log[j].before[sh.log[j].fn].hits + 1
        /\ OwnCacheOnly

\* A hit on another receiver's result happens, while the other wrapped
\* function has been called too.
C40_HitOnOtherReceiver ==
    /\ sh.pc = "run"
    /\ \E i, j \in 1..Len(sh.log) :
           /\ NextOnOtherReceiver(i, j)
           /\ sh.log[i].invoked
           /\ sh.log[i].out = Return(ResultOn(sh.log[i].recv, sh.log[i].args))
           /\ ~sh.log[j].invoked
    /\ \E k \in 1..Len(sh.log) : sh.log[k].op = "call" /\ sh.log[k].fn = "f2"

====
